---- MODULE Spec2Model ----
(***************************************************************************)
(* Model of the Metaflow -> Prefect compiler: the Graph Analyzer           *)
(* (_graph.py), the Compilation Facade (prefect_flow.py), the line         *)
(* accumulator of the code generator, the foreach side channel             *)
(* (prefect_decorator.py) and the create, run and deploy subcommands       *)
(* (prefect_cli.py).                                                       *)
(*                                                                         *)
(* Python values are encoded uniformly:                                    *)
(*   - an optional value is a sequence: <<>> is None, <<x>> is x;          *)
(*   - a dict is a function from the keys that are present;                *)
(*   - an exception is a record [exc, msg] whose msg is the sequence of    *)
(*     literal pieces and %-arguments the message is formatted from.       *)
(* The StepSpec / FlowSpec records carry the fields that the constructor   *)
(* calls in _graph.py pass.                                                *)
(***************************************************************************)
EXTENDS Integers, Sequences, FiniteSets, TLC

\* ---------------------------------------------------------------------
\* Bounds
\* ---------------------------------------------------------------------
\* steps between 'start' and 'end' in the enumerated graphs
NumMid == 2
\* number of consecutive PrefectFlow.compile() calls on one instance
NumCalls == 2
\* largest magnitude of a @timeout or @retry attribute value
MaxAttr == 1
\* largest user-code retry count a decorator reports
MaxRetries == 2
\* longest enumerated flow class name
MaxNameLen == 3
\* number of emit/indent/dedent calls on one line accumulator
MaxCalls == 4
\* largest foreach cardinality
MaxSplits == 2

\* ---------------------------------------------------------------------
\* Python value helpers
\* ---------------------------------------------------------------------
None == <<>>

Some(x) == <<x>>

IsNone(o) == o = <<>>

\* dict.get(key, default)
Get(d, key, default) == IF key \in DOMAIN d THEN d[key] ELSE default

\* the empty dict
EmptyDict == [k \in {} |-> None]

\* "x or 0" for an optional integer: None and 0 are falsy
OrZero(o) == IF IsNone(o) THEN 0 ELSE o[1]

Reverse(s) == [i \in 1..Len(s) |-> s[Len(s) + 1 - i]]

Range(s) == {s[i] : i \in 1..Len(s)}

\* ---------------------------------------------------------------------
\* Step names and the order in which the graph object iterates its nodes
\* ---------------------------------------------------------------------
AllMid == <<"m1", "m2", "m3", "m4">>

MidNodes == {AllMid[i] : i \in 1..NumMid}

Nodes == {"start", "end"} \cup MidNodes

NodeOrder == <<"start">> \o SubSeq(AllMid, 1, NumMid) \o <<"end">>

Pos(n) == CHOOSE i \in 1..Len(NodeOrder) : NodeOrder[i] = n

\* the members of S as a sequence in iteration order
OrderedSeq(S) == SelectSeq(NodeOrder, LAMBDA n : n \in S)

\* ---------------------------------------------------------------------
\* _types.py
\* ---------------------------------------------------------------------
NodeType == {"start", "linear", "split", "join", "foreach", "end"}

\* StepSpec(...) as constructed in _topological_order
StepSpec(name, node_type, in_funcs, out_funcs, split_parents, retries, fj, sj, tmo, delay, env) ==
    [name |-> name, node_type |-> node_type, in_funcs |-> in_funcs,
     out_funcs |-> out_funcs, split_parents |-> split_parents,
     max_user_code_retries |-> retries, is_foreach_join |-> fj,
     is_split_join |-> sj, timeout_seconds |-> tmo,
     retry_delay_seconds |-> delay, env_vars |-> env]

\* ParameterSpec(...) as constructed in _extract_parameters
ParameterSpec(name, default, description, type_name) ==
    [name |-> name, default |-> default, description |-> description,
     type_name |-> type_name]

\* FlowSpec(...) as constructed in analyze_graph
FlowSpec(name, steps, parameters, description, schedule_cron, tags, namespace, project_name) ==
    [name |-> name, steps |-> steps, parameters |-> parameters,
     description |-> description, schedule_cron |-> schedule_cron,
     tags |-> tags, namespace |-> namespace, project_name |-> project_name]

\* ---------------------------------------------------------------------
\* Exceptions
\* ---------------------------------------------------------------------
NotSupportedException(msg) == [exc |-> "NotSupportedException", msg |-> msg]

ValueError(msg) == [exc |-> "ValueError", msg |-> msg]

AttributeError(msg) == [exc |-> "AttributeError", msg |-> msg]

\* ---------------------------------------------------------------------
\* Host objects (inputs): decorators, nodes, parameters
\* ---------------------------------------------------------------------
\* a step decorator: name, attributes dict, and the user part of
\* step_task_retry_count()
Deco(name, attributes, retries) ==
    [name |-> name, attributes |-> attributes, retries |-> retries]

PlainDeco(name) == Deco(name, EmptyDict, 0)

Node(name, type, in_funcs, out_funcs, split_parents, pf, decorators) ==
    [name |-> name, type |-> type, in_funcs |-> in_funcs,
     out_funcs |-> out_funcs, split_parents |-> split_parents,
     parallel_foreach |-> pf, decorators |-> decorators]

\* a Python scalar: type name t, integer payload i, string payload s;
\* d marks a deploy-time-deferred value whose evaluation yields (t, i, s)
PyVal(t, i, s, d) == [t |-> t, i |-> i, s |-> s, d |-> d]

PyNone == PyVal("NoneType", 0, "", FALSE)

PyInt(n) == PyVal("int", n, "", FALSE)

PyStr(str) == PyVal("str", 0, str, FALSE)

PyBool(b) == PyVal("bool", IF b THEN 1 ELSE 0, "", FALSE)

\* Python truthiness of a scalar
Truthy(v) == ~(v.t = "NoneType" \/ (v.t \in {"int", "bool", "float"} /\ v.i = 0)
                \/ (v.t = "str" /\ v.s = ""))

\* ---------------------------------------------------------------------
\* _graph.py : _validate
\* ---------------------------------------------------------------------
ParallelMsg == <<"Deploying flows with @parallel to Prefect is not yet supported.">>

\* variant of BatchMsg that does not interpolate the step name
BatchMsg_nostep(step) == <<"A step uses @batch which is not supported with Prefect.">>

BatchMsg(step) ==
    <<"Step *", step, "* uses @batch which is not supported with Prefect. Remove @batch or use --with=batch on the Prefect CLI instead.">>

SlurmMsg(step) == <<"Step *", step, "* uses @slurm which is not supported with Prefect.">>

FlowDecoMsg(bad_deco) == <<"@", bad_deco, " is not supported with Prefect deployments.">>

BadFlowDecos == <<"trigger", "trigger_on_finish", "exit_hook">>

\* variant of _validate_decos that forgets the @slurm check
RECURSIVE _validate_decos_noslurm(_, _, _)
_validate_decos_noslurm(node, decos, i) ==
    IF i > Len(decos) THEN None
    ELSE IF decos[i].name = "batch"
         THEN Some(NotSupportedException(<<"Step *", node.name, "* uses @batch">>))
    ELSE _validate_decos_noslurm(node, decos, i + 1)

\* inner loop of _validate: the first batch/slurm decorator of the node
RECURSIVE _validate_decos(_, _, _)
_validate_decos(node, decos, i) ==
    IF i > Len(decos) THEN None
    ELSE IF decos[i].name = "batch"
         THEN Some(NotSupportedException(BatchMsg(node.name)))
    ELSE IF decos[i].name = "slurm"
         THEN Some(NotSupportedException(SlurmMsg(node.name)))
    ELSE _validate_decos(node, decos, i + 1)

\* body of the step-level loop for one node
_validate_node(node) ==
    IF node.parallel_foreach
    THEN Some(NotSupportedException(ParallelMsg))
    ELSE _validate_decos(node, node.decorators, 1)

RECURSIVE _validate_steps(_, _)
_validate_steps(graph, i) ==
    IF i > Len(NodeOrder) THEN None
    ELSE IF ~IsNone(_validate_node(graph[NodeOrder[i]]))
         THEN _validate_node(graph[NodeOrder[i]])
    ELSE _validate_steps(graph, i + 1)

\* flow._flow_decorators.get(name) inside try/except: a failed lookup is None.
\* flow._flow_decorators is <<>> when the attribute lookup fails.
SafeFlowDecos(flow, name) ==
    IF IsNone(flow._flow_decorators) THEN <<>>
    ELSE Get(flow._flow_decorators[1], name, <<>>)

RECURSIVE _validate_flow(_, _)
_validate_flow(flow, i) ==
    IF i > Len(BadFlowDecos) THEN None
    ELSE IF SafeFlowDecos(flow, BadFlowDecos[i]) # <<>>
         THEN Some(NotSupportedException(FlowDecoMsg(BadFlowDecos[i])))
    ELSE _validate_flow(flow, i + 1)

\* None when the graph and flow are accepted, else the exception raised
_validate(graph, flow) ==
    IF ~IsNone(_validate_steps(graph, 1))
    THEN _validate_steps(graph, 1)
    ELSE _validate_flow(flow, 1)

\* ---------------------------------------------------------------------
\* _graph.py : per-step policy extraction
\* ---------------------------------------------------------------------
\* variant of Max that keeps the later count
Max_later(a, b) == b

Max(a, b) == IF a >= b THEN a ELSE b

RECURSIVE _max_retries_from(_, _, _)
_max_retries_from(decos, i, max_retries) ==
    IF i > Len(decos) THEN max_retries
    ELSE _max_retries_from(decos, i + 1, Max(max_retries, decos[i].retries))

_max_user_code_retries(node) == _max_retries_from(node.decorators, 1, 0)

\* variant of _retry_delay_from that returns the minutes unconverted
RECURSIVE _retry_delay_from_minutes(_, _)
_retry_delay_from_minutes(decos, i) ==
    IF i > Len(decos) THEN None
    ELSE IF decos[i].name = "retry"
            /\ OrZero(Get(decos[i].attributes, "minutes_between_retries", Some(0))) # 0
         THEN Some(OrZero(Get(decos[i].attributes, "minutes_between_retries", Some(0))))
    ELSE _retry_delay_from_minutes(decos, i + 1)

\* the loop of _step_retry_delay_seconds from the i-th decorator on
RECURSIVE _retry_delay_from(_, _)
_retry_delay_from(decos, i) ==
    IF i > Len(decos) THEN None
    ELSE IF decos[i].name = "retry"
            /\ OrZero(Get(decos[i].attributes, "minutes_between_retries", Some(0))) # 0
         THEN Some(OrZero(Get(decos[i].attributes, "minutes_between_retries", Some(0))) * 60)
    ELSE _retry_delay_from(decos, i + 1)

_step_retry_delay_seconds(node) == _retry_delay_from(node.decorators, 1)

\* variant of TimeoutTotal that converts hours with the factor for minutes
TimeoutTotal_hours60(attributes) ==
    OrZero(Get(attributes, "seconds", Some(0)))
      + OrZero(Get(attributes, "minutes", Some(0))) * 60
      + OrZero(Get(attributes, "hours", Some(0))) * 60

\* total = int(secs) + int(mins) * 60 + int(hours) * 3600 of one decorator
TimeoutTotal(attributes) ==
    OrZero(Get(attributes, "seconds", Some(0)))
      + OrZero(Get(attributes, "minutes", Some(0))) * 60
      + OrZero(Get(attributes, "hours", Some(0))) * 3600

\* the loop of _step_timeout_seconds from the i-th decorator on
RECURSIVE _timeout_from(_, _)
_timeout_from(decos, i) ==
    IF i > Len(decos) THEN None
    ELSE IF decos[i].name = "timeout" /\ TimeoutTotal(decos[i].attributes) > 0
         THEN Some(TimeoutTotal(decos[i].attributes))
    ELSE _timeout_from(decos, i + 1)

_step_timeout_seconds(node) == _timeout_from(node.decorators, 1)

\* environment-variable names in ascending string order
EnvKeyOrder == <<"MY_VAR", "OTHER">>

EnvKeys == Range(EnvKeyOrder)

StrRank(k) == CHOOSE i \in 1..Len(EnvKeyOrder) : EnvKeyOrder[i] = k

\* raw.items(): the pairs of the dict in its iteration order; the dict is a
\* function, and rev tells whether it iterates in reverse key order
Items(raw, rev) ==
    LET asc == SelectSeq(EnvKeyOrder, LAMBDA k : k \in DOMAIN raw)
        keys == IF rev THEN Reverse(asc) ELSE asc
    IN  [i \in 1..Len(keys) |-> <<keys[i], raw[keys[i]]>>]

\* variant of InsertSorted that orders the keys descending
RECURSIVE InsertSorted_desc(_, _)
InsertSorted_desc(p, s) ==
    IF s = <<>> THEN <<p>>
    ELSE IF StrRank(p[1]) >= StrRank(Head(s)[1]) THEN <<p>> \o s
    ELSE <<Head(s)>> \o InsertSorted_desc(p, Tail(s))

\* insert pair p into the sorted sequence s (tuple comparison; keys are unique)
RECURSIVE InsertSorted(_, _)
InsertSorted(p, s) ==
    IF s = <<>> THEN <<p>>
    ELSE IF StrRank(p[1]) <= StrRank(Head(s)[1]) THEN <<p>> \o s
    ELSE <<Head(s)>> \o InsertSorted(p, Tail(s))

\* variant of Sorted that leaves the pairs in iteration order
Sorted_unsorted(pairs) == pairs

\* sorted(pairs)
RECURSIVE Sorted(_)
Sorted(pairs) ==
    IF pairs = <<>> THEN <<>> ELSE InsertSorted(Head(pairs), Sorted(Tail(pairs)))

\* the loop of _step_env_vars from the i-th decorator on; "vars" is an
\* optional dict
RECURSIVE _env_vars_from(_, _, _)
_env_vars_from(decos, i, rev) ==
    IF i > Len(decos) THEN <<>>
    ELSE IF decos[i].name = "environment"
         THEN LET v == Get(decos[i].attributes, "vars", None)
                  raw == IF IsNone(v) THEN EmptyDict ELSE v[1]
              IN  Sorted(Items(raw, rev))
    ELSE _env_vars_from(decos, i + 1, rev)

_step_env_vars(node, rev) == _env_vars_from(node.decorators, 1, rev)

Last(s) == s[Len(s)]

\* variant of _is_foreach_join that looks at the outermost fork
_is_foreach_join_outermost(graph, node) ==
    IF node.type # "join" THEN FALSE
    ELSE IF node.split_parents = <<>> THEN FALSE
    ELSE graph[node.split_parents[1]].type = "foreach"

_is_foreach_join(graph, node) ==
    IF node.type # "join" THEN FALSE
    ELSE IF node.split_parents = <<>> THEN FALSE
    ELSE graph[Last(node.split_parents)].type = "foreach"

\* variant of _is_split_join that accepts every kind of enclosing fork
_is_split_join_any(graph, node) ==
    IF node.type # "join" THEN FALSE
    ELSE node.split_parents # <<>>

_is_split_join(graph, node) ==
    IF node.type # "join" THEN FALSE
    ELSE IF node.split_parents = <<>> THEN FALSE
    ELSE graph[Last(node.split_parents)].type = "split"

\* the StepSpec(...) call in the loop body of _topological_order; the
\* NodeType(node.type) conversion has succeeded when this is used
MakeStepSpec(graph, node, rev) ==
    StepSpec(node.name, node.type, node.in_funcs, node.out_funcs,
             node.split_parents, _max_user_code_retries(node),
             _is_foreach_join(graph, node), _is_split_join(graph, node),
             _step_timeout_seconds(node), _step_retry_delay_seconds(node),
             _step_env_vars(node, rev))

\* variant of EnqueueChildren that enqueues only the first successor
EnqueueChildren_first(q, out_funcs, i, seen) ==
    IF out_funcs # <<>> /\ out_funcs[1] \notin seen THEN Append(q, out_funcs[1]) ELSE q

\* children appended to the queue after a node is processed
RECURSIVE EnqueueChildren(_, _, _, _)
EnqueueChildren(q, out_funcs, i, seen) ==
    IF i > Len(out_funcs) THEN q
    ELSE EnqueueChildren(IF out_funcs[i] \notin seen THEN Append(q, out_funcs[i]) ELSE q,
                         out_funcs, i + 1, seen)

\* ---------------------------------------------------------------------
\* _graph.py : parameters, schedule, project, tags, description
\* ---------------------------------------------------------------------
\* variant of _param_kwarg that falls back on every falsy primary value
_param_kwarg_falsy(param, key) ==
    LET value == Get(param.kwargs, key, PyNone)
        override == IF IsNone(param._override_kwargs)
                    THEN EmptyDict ELSE param._override_kwargs[1]
    IN  IF ~Truthy(value) THEN Get(override, key, PyNone) ELSE value

\* param.kwargs.get(key), then getattr(param, "_override_kwargs", {}).get(key)
_param_kwarg(param, key) ==
    LET value == Get(param.kwargs, key, PyNone)
        override == IF IsNone(param._override_kwargs)
                    THEN EmptyDict ELSE param._override_kwargs[1]
    IN  IF value = PyNone THEN Get(override, key, PyNone) ELSE value

\* metaflow.parameters.deploy_time_eval: a deferred value is evaluated,
\* any other value is returned as it is
deploy_time_eval(value) == IF value.d THEN [value EXCEPT !.d = FALSE] ELSE value

\* variant of DeployTimeCalls in which the type lookup evaluates the raw
\* default a second time
DeployTimeCalls_twice(param) == IF _param_kwarg(param, "default").d THEN 2 ELSE 0

\* how often the loop body of _extract_parameters calls the deferred default
\* of one parameter: deploy_time_eval(raw_default) appears once
DeployTimeCalls(param) == IF _param_kwarg(param, "default").d THEN 1 ELSE 0

\* variant of _type_map that files bool, a subclass of int, under int
_type_map_boolint ==
    [int |-> "int", float |-> "float", bool |-> "int", str |-> "str", NoneType |-> "str"]

_type_map == [int |-> "int", float |-> "float", bool |-> "bool", str |-> "str",
              NoneType |-> "str"]

\* the loop body of _extract_parameters for one parameter
MakeParameterSpec(param) ==
    LET default == deploy_time_eval(_param_kwarg(param, "default"))
        help == _param_kwarg(param, "help")
    IN  ParameterSpec(param.name, default,
                      IF Truthy(help) THEN help ELSE PyStr(""),
                      Get(_type_map, default.t, "str"))

_extract_parameters(flow) ==
    [i \in 1..Len(flow.params) |-> MakeParameterSpec(flow.params[i])]

\* variant of _extract_schedule that tests the weekly flag before the cron
_extract_schedule_weekly_first(flow) ==
    LET schedules == Get(flow._flow_decorators[1], "schedule", <<>>)
        s == schedules[1]
    IN  IF schedules = <<>> THEN None
        ELSE IF Truthy(Get(s.attributes, "weekly", PyNone)) THEN Some("0 0 * * 0")
        ELSE IF Truthy(Get(s.attributes, "cron", PyNone)) THEN Some(s.attributes["cron"].s)
        ELSE IF Truthy(Get(s.attributes, "hourly", PyNone)) THEN Some("0 * * * *")
        ELSE IF Truthy(Get(s.attributes, "daily", PyNone)) THEN Some("0 0 * * *")
        ELSE None

\* _extract_schedule; only called when flow._flow_decorators can be read
_extract_schedule(flow) ==
    LET schedules == Get(flow._flow_decorators[1], "schedule", <<>>)
        s == schedules[1]
    IN  IF schedules = <<>> THEN None
        ELSE IF Truthy(Get(s.attributes, "cron", PyNone)) THEN Some(s.attributes["cron"].s)
        ELSE IF Truthy(Get(s.attributes, "weekly", PyNone)) THEN Some("0 0 * * 0")
        ELSE IF Truthy(Get(s.attributes, "hourly", PyNone)) THEN Some("0 * * * *")
        ELSE IF Truthy(Get(s.attributes, "daily", PyNone)) THEN Some("0 0 * * *")
        ELSE None

\* _extract_project: a failed lookup is None
_extract_project(flow) ==
    LET project_decos == SafeFlowDecos(flow, "project")
        name == Get(project_decos[1].attributes, "name", PyNone)
    IN  IF project_decos = <<>> THEN None
        ELSE IF Truthy(name) THEN Some(name.s) ELSE None

\* str.strip() on a string given as a sequence of characters
Whitespace == {" ", "\n", "\t"}

RECURSIVE LStrip(_)
LStrip(chars) ==
    IF chars # <<>> /\ Head(chars) \in Whitespace THEN LStrip(Tail(chars)) ELSE chars

Strip(chars) == Reverse(LStrip(Reverse(LStrip(chars))))

\* lines 52-66 of analyze_graph, after the traversal returned steps
MakeFlowSpec(flow, steps) ==
    FlowSpec(flow.name, steps, _extract_parameters(flow),
             Strip(IF IsNone(flow.doc) THEN <<>> ELSE flow.doc[1]),
             _extract_schedule(flow),
             IF IsNone(flow._tags) THEN <<>> ELSE flow._tags[1],
             None,
             _extract_project(flow))

\* ---------------------------------------------------------------------
\* prefect_flow.py : PrefectFlow.compile, after analyze_graph returned
\* ---------------------------------------------------------------------
\* the overlay branch of compile(); the FlowSpec(...) call passes no
\* project_name, which then takes the dataclass default
Overlay(spec, tags, namespace) ==
    IF tags # <<>> \/ (~IsNone(namespace) /\ namespace[1] # "")
    THEN FlowSpec(spec.name, spec.steps, spec.parameters, spec.description,
                  spec.schedule_cron,
                  IF tags # <<>> THEN tags ELSE spec.tags,
                  IF ~IsNone(namespace) THEN namespace ELSE spec.namespace,
                  None)
    ELSE spec

\* ---------------------------------------------------------------------
\* prefect_cli.py : _python_name
\* ---------------------------------------------------------------------
\* the letters of the modelled names that str.isupper() accepts, and what
\* str.lower() turns each into; every other character is its own lower()
UpperCase == <<"A", "F", "M", "S">>

LowerCase == <<"a", "f", "m", "s">>

IsUpper(ch) == ch \in Range(UpperCase)

Lower(ch) ==
    IF IsUpper(ch)
    THEN LowerCase[CHOOSE i \in 1..Len(UpperCase) : UpperCase[i] = ch]
    ELSE ch

\* variant of PythonNameLoop that also puts '_' before a leading capital
RECURSIVE PythonNameLoop_leading(_, _, _)
PythonNameLoop_leading(flow_name, i, result) ==
    IF i > Len(flow_name) THEN result
    ELSE PythonNameLoop_leading(flow_name, i + 1,
             (IF IsUpper(flow_name[i]) THEN Append(result, "_") ELSE result)
                 \o <<Lower(flow_name[i])>>)

\* the for loop of _python_name from the i-th character on (i counts from 1,
\* enumerate() from 0)
RECURSIVE PythonNameLoop(_, _, _)
PythonNameLoop(flow_name, i, result) ==
    IF i > Len(flow_name) THEN result
    ELSE PythonNameLoop(flow_name, i + 1,
             (IF IsUpper(flow_name[i]) /\ i > 1 THEN Append(result, "_") ELSE result)
                 \o <<Lower(flow_name[i])>>)

_python_name(flow_name) == PythonNameLoop(flow_name, 1, <<>>)

\* ---------------------------------------------------------------------
\* prefect_cli.py : paths, _resolve_name, _get_schedule_cron
\* ---------------------------------------------------------------------
MetaflowException(msg) == [exc |-> "MetaflowException", msg |-> msg]

\* any exception raised by the generated module, by Prefect or by the loader
RuntimeFailure(msg) == [exc |-> "Exception", msg |-> msg]

\* a path as the command line gives it: absolute or relative to the working
\* directory, and its components
Path(abs, parts) == [abs |-> abs, parts |-> parts]

\* os.getcwd(), as components from the root
Cwd == <<"home">>

\* os.path.normpath on components: '.' is dropped, '..' drops the component
\* before it and is itself dropped at the root
RECURSIVE normpath(_, _)
normpath(parts, acc) ==
    IF parts = <<>> THEN acc
    ELSE normpath(Tail(parts),
                  IF Head(parts) = "." THEN acc
                  ELSE IF Head(parts) = ".."
                       THEN (IF acc = <<>> THEN acc ELSE SubSeq(acc, 1, Len(acc) - 1))
                       ELSE Append(acc, Head(parts)))

\* variant of abspath that joins with the working directory and does not
\* normalise
abspath_joined(path) == (IF path.abs THEN <<>> ELSE Cwd) \o path.parts

\* os.path.abspath: normpath(join(os.getcwd(), path)), components from the root
abspath(path) == normpath((IF path.abs THEN <<>> ELSE Cwd) \o path.parts, <<>>)

\* the characters of the modelled names that [^a-zA-Z0-9_\-\.] does not match
AllowedChars ==
    {"S", "i", "m", "p", "l", "e", "F", "o", "w", "f", "1", "_", "-", "."}

\* re.search(r"[^a-zA-Z0-9_\-\.]", name) finds a match
HasForbiddenChar(name) == \E i \in 1..Len(name) : name[i] \notin AllowedChars

NameMsg(name) == <<"Flow name '", name, "' contains characters not allowed in a Prefect flow name.">>

\* variant of _resolve_name that returns every name
_resolve_name_any(name) == [name |-> Some(name), err |-> None]

\* _resolve_name, on the characters of obj.flow.name: the name, or the
\* exception raised
_resolve_name(name) ==
    IF HasForbiddenChar(name)
    THEN [name |-> None, err |-> Some(MetaflowException(NameMsg(name)))]
    ELSE [name |-> Some(name), err |-> None]

\* variant of _get_schedule_cron that tests the daily flag before the hourly
_get_schedule_cron_daily_first(flow) ==
    LET schedules == Get(flow._flow_decorators[1], "schedule", <<>>)
        s == schedules[1]
    IN  IF schedules = <<>> THEN None
        ELSE IF Truthy(Get(s.attributes, "cron", PyNone)) THEN Some(s.attributes["cron"].s)
        ELSE IF Truthy(Get(s.attributes, "weekly", PyNone)) THEN Some("0 0 * * 0")
        ELSE IF Truthy(Get(s.attributes, "daily", PyNone)) THEN Some("0 0 * * *")
        ELSE IF Truthy(Get(s.attributes, "hourly", PyNone)) THEN Some("0 * * * *")
        ELSE None

\* _get_schedule_cron; deploy calls it after compile() returned, when
\* flow._flow_decorators has already been read
_get_schedule_cron(flow) ==
    LET schedules == Get(flow._flow_decorators[1], "schedule", <<>>)
        s == schedules[1]
    IN  IF schedules = <<>> THEN None
        ELSE IF Truthy(Get(s.attributes, "cron", PyNone)) THEN Some(s.attributes["cron"].s)
        ELSE IF Truthy(Get(s.attributes, "weekly", PyNone)) THEN Some("0 0 * * 0")
        ELSE IF Truthy(Get(s.attributes, "hourly", PyNone)) THEN Some("0 * * * *")
        ELSE IF Truthy(Get(s.attributes, "daily", PyNone)) THEN Some("0 0 * * *")
        ELSE None

\* the content of a file: what kind of text it is, and the text
Content(kind, body) == <<kind, body>>

\* the flow file, a file left at the output path by an earlier run, and the
\* empty file NamedTemporaryFile creates
FlowSource == Content("flow", <<>>)

OldOutput == Content("old", <<>>)

EmptyFile == Content("empty", <<>>)

\* tmp.name: a fresh path that names no other file
TmpPath == Path(TRUE, <<"tmp", "tmpfile.py">>)

\* the file a path names to the operating system, which walks the
\* directories from the root or from the working directory; every directory
\* named exists and none is a symbolic link
RECURSIVE Walk(_, _)
Walk(dir, parts) ==
    IF parts = <<>> THEN dir
    ELSE Walk(IF Head(parts) = "." THEN dir
              ELSE IF Head(parts) = ".."
                   THEN (IF dir = <<>> THEN dir ELSE SubSeq(dir, 1, Len(dir) - 1))
                   ELSE Append(dir, Head(parts)),
              Tail(parts))

Locate(path) == Walk(IF path.abs THEN <<>> ELSE Cwd, path.parts)

\* open(path, "w") followed by f.write(source): the file is created or
\* truncated and holds the text
WriteFile(files, path, source) ==
    [p \in DOMAIN files \cup {Locate(path)} |->
        IF p = Locate(path) THEN Content("generated", source) ELSE files[p]]

\* os.unlink(path)
Unlink(files, path) == [p \in DOMAIN files \ {Locate(path)} |-> files[p]]

\* ---------------------------------------------------------------------
\* prefect_decorator.py : PrefectInternalDecorator.task_finished
\* ---------------------------------------------------------------------
DigitChars == <<"0", "1", "2", "3", "4", "5", "6", "7", "8", "9">>

\* str(n) for 0 <= n <= 99
Digits(n) ==
    IF n < 10 THEN <<DigitChars[n + 1]>>
    ELSE <<DigitChars[(n \div 10) + 1], DigitChars[(n % 10) + 1]>>

JsonKey == <<"{", "\"", "n", "u", "m", "_", "s", "p", "l", "i", "t", "s", "\"", ":", " ">>

\* json.dump({"num_splits": n}, f): the text written
JsonDump(n) == JsonKey \o Digits(n) \o <<"}">>

DigitValue(ch) == (CHOOSE i \in 1..10 : DigitChars[i] = ch) - 1

RECURSIVE IntOf(_, _)
IntOf(digits, acc) ==
    IF digits = <<>> THEN acc ELSE IntOf(Tail(digits), acc * 10 + DigitValue(Head(digits)))

\* the side-channel reader of the generated program:
\* json.load(f)["num_splits"]
ReadNumSplits(text) == IntOf(SubSeq(text, Len(JsonKey) + 1, Len(text) - 1), 0)

\* variant of task_finished that does not look at the step type
task_finished_anytype(task, info_path, file) ==
    IF ~task.is_task_ok THEN file
    ELSE IF ~IsNone(info_path) /\ info_path[1] # ""
         THEN IF ~IsNone(task.num_splits) THEN Some(JsonDump(task.num_splits[1])) ELSE file
    ELSE file

\* variant of task_finished that does not look at is_task_ok
task_finished_anyok(task, info_path, file) ==
    IF task.type = "foreach"
    THEN IF ~IsNone(info_path) /\ info_path[1] # ""
         THEN IF ~IsNone(task.num_splits) THEN Some(JsonDump(task.num_splits[1])) ELSE file
         ELSE file
    ELSE file

\* task_finished: the file at the side-channel path afterwards.  task holds
\* is_task_ok, graph[step_name].type and getattr(flow, "_foreach_num_splits",
\* None); info_path is os.environ.get(ENV_FOREACH_INFO_PATH); file is the
\* file at that path before the call.  open(info_path, "w") replaces it.
task_finished(task, info_path, file) ==
    IF ~task.is_task_ok THEN file
    ELSE IF task.type = "foreach"
         THEN IF ~IsNone(info_path) /\ info_path[1] # ""
              THEN IF ~IsNone(task.num_splits)
                   THEN Some(JsonDump(task.num_splits[1])) ELSE file
              ELSE file
    ELSE file

\* ---------------------------------------------------------------------
\* _codegen.py : the line accumulator _CB
\* ---------------------------------------------------------------------
\* one indentation unit
IndentUnit == <<" ", " ", " ", " ">>

RECURSIVE Repeat(_, _)
Repeat(chars, n) == IF n <= 0 THEN <<>> ELSE chars \o Repeat(chars, n - 1)

\* _CB(): no lines, depth zero
_CB == [lines |-> <<>>, depth |-> 0]

\* cb.emit(line): the line at the current depth; a blank line stays blank
_CB_emit(cb, line) ==
    [cb EXCEPT !.lines = Append(@, IF line = <<>> THEN <<>>
                                   ELSE Repeat(IndentUnit, cb.depth) \o line)]

_CB_indent(cb) == [cb EXCEPT !.depth = @ + 1]

\* variant of _CB_dedent that does not clamp
_CB_dedent_unclamped(cb) == [cb EXCEPT !.depth = @ - 1]

\* cb.dedent(): clamped at zero
_CB_dedent(cb) == [cb EXCEPT !.depth = IF @ > 0 THEN @ - 1 ELSE 0]

\* "\n".join(lines)
RECURSIVE JoinLines(_)
JoinLines(lines) ==
    IF lines = <<>> THEN <<>>
    ELSE IF Len(lines) = 1 THEN lines[1]
    ELSE lines[1] \o <<"\n">> \o JoinLines(Tail(lines))

\* variant of _CB_build that ends every line with a newline
RECURSIVE _CB_build_terminated(_)
_CB_build_terminated(cb) ==
    IF cb.lines = <<>> THEN <<>>
    ELSE cb.lines[1] \o <<"\n">>
           \o _CB_build_terminated([cb EXCEPT !.lines = Tail(@)])

\* cb.build()
_CB_build(cb) == JoinLines(cb.lines)

\* _codegen.generate_prefect_file: the source text is a function of the
\* FlowSpec (and of the fixed emission config)
generate_prefect_file(spec) == <<"# Generated by metaflow-prefect from", spec>>

\* ---------------------------------------------------------------------
\* Input graphs and flows
\* ---------------------------------------------------------------------
ForwardPairs == {e \in Nodes \X Nodes : Pos(e[1]) < Pos(e[2])}

Succ(E, n) == {e[2] : e \in {x \in E : x[1] = n}}

Pred(E, n) == {e[1] : e \in {x \in E : x[2] = n}}

\* the node type the host framework gives a step of this shape
ShapeType(E, n) ==
    IF n = "end" THEN "end"
    ELSE IF Cardinality(Succ(E, n)) >= 2 THEN "split"
    ELSE IF Cardinality(Pred(E, n)) >= 2 THEN "join"
    ELSE IF n = "start" THEN "start"
    ELSE "linear"

\* a graph with edge set E; in_funcs are sorted, out_funcs follow the order
\* of the self.next(...) arguments, which rev[n] reverses
EdgeGraph(E, rev, type, split_parents, pf, decorators) ==
    [n \in Nodes |->
        Node(n, type[n], OrderedSeq(Pred(E, n)),
             IF rev[n] THEN Reverse(OrderedSeq(Succ(E, n))) ELSE OrderedSeq(Succ(E, n)),
             split_parents[n], pf[n], decorators[n])]

NoRev == [n \in Nodes |-> FALSE]

NoSplitParents == [n \in Nodes |-> <<>>]

NoParallel == [n \in Nodes |-> FALSE]

NoDecorators == [n \in Nodes |-> <<>>]

ChainEdges == {e \in ForwardPairs : Pos(e[2]) = Pos(e[1]) + 1}

ChainTypes == [n \in Nodes |-> ShapeType(ChainEdges, n)]

Chars(str) == CASE str = "doc" -> <<" ", "A", " ", "f", "l", "o", "w", ".", "\n">>
                [] str = "SimpleFlow" -> <<"S", "i", "m", "p", "l", "e", "F", "l", "o", "w">>
                [] str = "MyAwesomeFlow" ->
                       <<"M", "y", "A", "w", "e", "s", "o", "m", "e", "F", "l", "o", "w">>
                [] str = "Flow" -> <<"F", "l", "o", "w">>
                [] str = "flow" -> <<"f", "l", "o", "w">>
                [] str = "Flöw" -> <<"F", "l", "ö", "w">>
                [] str = "simple_flow" -> <<"s", "i", "m", "p", "l", "e", "_", "f", "l", "o", "w">>
                [] str = "my_awesome_flow" ->
                       <<"m", "y", "_", "a", "w", "e", "s", "o", "m", "e", "_", "f", "l", "o", "w">>
                [] OTHER -> <<>>

PlainFlow ==
    [name |-> "SimpleFlow", doc |-> Some(Chars("doc")), _tags |-> None,
     _flow_decorators |-> Some(EmptyDict), params |-> <<>>]

Input(g, f, tags, namespace) ==
    [graph |-> g, flow |-> f, tags |-> tags, namespace |-> namespace]

\* the orders in which the forks of E may list their successors
RevChoices(E) ==
    {r \in [Nodes -> BOOLEAN] : \A n \in Nodes : r[n] => Cardinality(Succ(E, n)) >= 2}

\* every forward edge set, every order of the successors of a fork
TopologyInputs ==
    UNION {{Input(EdgeGraph(E, rev, [n \in Nodes |-> ShapeType(E, n)],
                            NoSplitParents, NoParallel, NoDecorators),
                  PlainFlow, <<>>, None) : rev \in RevChoices(E)} :
           E \in SUBSET ForwardPairs}

\* unsupported features on the first two steps and on the flow
RejectDecoLists ==
    {<<>>, <<PlainDeco("batch")>>, <<PlainDeco("slurm")>>,
     <<PlainDeco("retry"), PlainDeco("slurm"), PlainDeco("batch")>>}

AnyDeco == [attributes |-> EmptyDict]

FlowDecoChoices ==
    {None, Some(EmptyDict)}
    \cup {Some([k \in {name} |-> <<AnyDeco>>]) : name \in Range(BadFlowDecos)}
    \cup {Some([k \in {"trigger"} |-> <<>>]),
          Some([k \in {"exit_hook", "trigger_on_finish"} |-> <<AnyDeco>>])}

Marked == {"start", AllMid[1]}

RejectInputs ==
    {Input(EdgeGraph(ChainEdges, NoRev, ChainTypes, NoSplitParents,
                     [n \in Nodes |-> IF n \in Marked THEN pf[n] ELSE FALSE],
                     [n \in Nodes |-> IF n \in Marked THEN ds[n] ELSE <<>>]),
           [PlainFlow EXCEPT !._flow_decorators = fd], <<>>, None) :
        pf \in [Marked -> BOOLEAN], ds \in [Marked -> RejectDecoLists],
        fd \in FlowDecoChoices}

\* join classification: node types and split ancestry of the steps of a chain
ForkSeqs == {<<>>} \cup {<<a>> : a \in Marked} \cup {<<a, b>> : a \in Marked, b \in Marked}

JoinName == NodeOrder[3]

JoinInputs ==
    {Input(EdgeGraph(ChainEdges, NoRev,
                     [n \in Nodes |-> IF n = "start" THEN t0
                                      ELSE IF n = AllMid[1] THEN t1
                                      ELSE IF n = JoinName THEN tj
                                      ELSE ChainTypes[n]],
                     [n \in Nodes |-> IF n = JoinName THEN sp ELSE <<>>],
                     NoParallel, NoDecorators),
           PlainFlow, <<>>, None) :
        t0 \in {"start", "split", "foreach"},
        t1 \in {"linear", "split", "foreach"},
        tj \in NodeType \cup {"split-switch"},
        sp \in ForkSeqs}

\* @timeout attribute values: absent key, None, or an integer
AttrValues == {None} \cup {Some(v) : v \in (0 - MaxAttr)..MaxAttr}

TimeoutKeys == {"seconds", "minutes", "hours"}

TimeoutAttrs ==
    UNION {[K -> AttrValues] : K \in SUBSET TimeoutKeys}

RetryDeco == Deco("retry", [k \in {"times", "minutes_between_retries"} |-> Some(1)], 1)

TimeoutInputs ==
    {Input(EdgeGraph(ChainEdges, NoRev, ChainTypes, NoSplitParents, NoParallel,
                     [n \in Nodes |-> IF n = AllMid[1] THEN pre \o <<Deco("timeout", a, 0)>>
                                      ELSE <<>>]),
           PlainFlow, <<>>, None) :
        a \in TimeoutAttrs, pre \in {<<>>, <<RetryDeco>>}}

\* @retry on the first middle step, alone or next to another decorator that
\* reports a retry count of its own
RetryAttrs ==
    {EmptyDict} \cup {[k \in {"minutes_between_retries"} |-> v] : v \in AttrValues}

RetryDecoLists ==
    {<<>>}
    \cup {<<Deco("retry", a, r)>> : a \in RetryAttrs, r \in 0..MaxRetries}
    \cup UNION {{<<Deco("catch", EmptyDict, r2), Deco("retry", a, r)>>,
                 <<Deco("retry", a, r), Deco("catch", EmptyDict, r2)>>} :
                a \in RetryAttrs, r \in 0..MaxRetries, r2 \in 0..MaxRetries}

RetryInputs ==
    {Input(EdgeGraph(ChainEdges, NoRev, ChainTypes, NoSplitParents, NoParallel,
                     [n \in Nodes |-> IF n = AllMid[1] THEN ds ELSE <<>>]),
           PlainFlow, <<>>, None) :
        ds \in RetryDecoLists}

\* @environment(vars=...) on the start step
EnvDicts ==
    UNION {[K -> {"hello", "world"}] : K \in SUBSET EnvKeys}

EnvAttrs ==
    {EmptyDict, [k \in {"vars"} |-> None]} \cup {[k \in {"vars"} |-> Some(d)] : d \in EnvDicts}

EnvInputs ==
    {Input(EdgeGraph(ChainEdges, NoRev, ChainTypes, NoSplitParents, NoParallel,
                     [n \in Nodes |-> IF n = "start" THEN <<Deco("environment", a, 0)>>
                                      ELSE <<>>]),
           PlainFlow, <<>>, None) :
        a \in EnvAttrs}

\* flow-level inputs: parameters, schedule, project, tags, overlay
Param(name, kwargs, override) ==
    [name |-> name, kwargs |-> kwargs, _override_kwargs |-> override]

ParamLists ==
    {<<>>,
     <<Param("message", [k \in {"default", "help"} |->
                            IF k = "default" THEN PyStr("hello") ELSE PyStr("A message to echo.")],
             None),
       Param("count", [k \in {"default"} |-> PyInt(3)], None)>>,
     <<Param("when", [k \in {"default"} |-> PyVal("str", 0, "today", TRUE)], Some(EmptyDict))>>,
     <<Param("n", EmptyDict, Some([k \in {"default"} |-> PyInt(0)]))>>}

\* one parameter whose default is stored in either place, with every kind of
\* value: absent, None, falsy, of the four mapped types, of another type,
\* deferred
PyFloat(n) == PyVal("float", n, "", FALSE)

PyList == PyVal("list", 1, "", FALSE)

Deferred(v) == [v EXCEPT !.d = TRUE]

PrimaryDefaults ==
    {None} \cup {Some(v) : v \in {PyNone, PyInt(0), PyInt(3), PyBool(FALSE), PyBool(TRUE),
                                  PyStr(""), PyStr("hello"), PyFloat(0), PyFloat(2), PyList,
                                  Deferred(PyInt(7)), Deferred(PyNone)}}

Kwargs(default) ==
    IF IsNone(default) THEN EmptyDict ELSE [k \in {"default"} |-> default[1]]

FallbackChoices ==
    {None, Some(EmptyDict), Some(Kwargs(Some(PyInt(5)))),
     Some(Kwargs(Some(Deferred(PyStr("today")))))}

ParamChoiceLists ==
    {<<Param("p", Kwargs(d), fb)>> : d \in PrimaryDefaults, fb \in FallbackChoices}
    \cup {<<Param("p", Kwargs(Some(PyInt(0))), Some(Kwargs(Some(PyInt(5))))),
            Param("q", Kwargs(d), Some(Kwargs(Some(PyInt(5)))))>> :
              d \in {None, Some(PyNone), Some(Deferred(PyBool(TRUE)))}}

ParamInputs ==
    {Input(EdgeGraph(ChainEdges, NoRev, ChainTypes, NoSplitParents, NoParallel, NoDecorators),
           [PlainFlow EXCEPT !.params = ps], <<>>, None) :
        ps \in ParamChoiceLists}

ScheduleDeco(cron, weekly, hourly, daily) ==
    [attributes |-> [k \in {"cron", "weekly", "hourly", "daily"} |->
                        CASE k = "cron" -> cron
                          [] k = "weekly" -> PyBool(weekly)
                          [] k = "hourly" -> PyBool(hourly)
                          [] k = "daily" -> PyBool(daily)]]

ScheduleChoices ==
    {None, Some(EmptyDict),
     Some([k \in {"schedule"} |-> <<ScheduleDeco(PyStr("5 4 * * *"), TRUE, FALSE, FALSE)>>]),
     Some([k \in {"schedule"} |-> <<ScheduleDeco(PyNone, FALSE, TRUE, TRUE)>>]),
     Some([k \in {"schedule", "project"} |->
             IF k = "schedule" THEN <<ScheduleDeco(PyNone, FALSE, FALSE, TRUE)>>
             ELSE <<[attributes |-> [n \in {"name"} |-> PyStr("proj")]]>>])}

\* @schedule with every combination of cron and shorthand flags, without
\* attributes, and an empty decorator list
ScheduleLists ==
    {<<>>, <<[attributes |-> EmptyDict]>>}
    \cup {<<ScheduleDeco(cron, weekly, hourly, daily)>> :
            cron \in {PyNone, PyStr(""), PyStr("5 4 * * *")},
            weekly \in BOOLEAN, hourly \in BOOLEAN, daily \in BOOLEAN}

ScheduleInputs ==
    {Input(EdgeGraph(ChainEdges, NoRev, ChainTypes, NoSplitParents, NoParallel, NoDecorators),
           [PlainFlow EXCEPT !._flow_decorators = Some([k \in {"schedule"} |-> sl])],
           <<>>, None) :
        sl \in ScheduleLists}

FlowInputs ==
    {Input(EdgeGraph(ChainEdges, NoRev, ChainTypes, NoSplitParents, NoParallel, NoDecorators),
           [PlainFlow EXCEPT !.params = ps, !._flow_decorators = fd, !._tags = ft],
           tags, ns) :
        ps \in ParamLists, fd \in ScheduleChoices, ft \in {None, Some(<<"flowtag">>)},
        tags \in {<<>>, <<"my-tag">>}, ns \in {None, Some(""), Some("staging")}}

\* flow class names: the names of the tests, and every name of up to
\* MaxNameLen characters over capitals, a small letter and '_'
NameAlphabet == {"F", "S", "f", "_"}

RECURSIVE NamesOfLen(_)
NamesOfLen(n) ==
    IF n = 0 THEN {<<>>}
    ELSE {Append(w, ch) : w \in NamesOfLen(n - 1), ch \in NameAlphabet}

FlowNames ==
    {Chars("SimpleFlow"), Chars("MyAwesomeFlow"), Chars("Flow"), Chars("flow")}
    \cup UNION {NamesOfLen(n) : n \in 1..MaxNameLen}

\* a fork whose second branch is listed first and waits for the first one
LateJoinEdges ==
    {<<"start", AllMid[1]>>, <<"start", AllMid[2]>>, <<AllMid[1], AllMid[2]>>,
     <<AllMid[2], "end">>}

\* the command line: a linear flow, one with @batch on a step, one with a
\* step of a type outside NodeType, and the fork
CliGraphs ==
    {EdgeGraph(ChainEdges, NoRev, ChainTypes, NoSplitParents, NoParallel, ds) :
        ds \in {NoDecorators,
                [n \in Nodes |-> IF n = "start" THEN <<PlainDeco("batch")>> ELSE <<>>]}}
    \cup {EdgeGraph(ChainEdges, NoRev,
                    [n \in Nodes |-> IF n = AllMid[1] THEN "split-switch" ELSE ChainTypes[n]],
                    NoSplitParents, NoParallel, NoDecorators),
          EdgeGraph(LateJoinEdges, [n \in Nodes |-> n = "start"],
                    [n \in Nodes |-> ShapeType(LateJoinEdges, n)],
                    NoSplitParents, NoParallel, NoDecorators)}

\* flow class names: two that _resolve_name accepts and one it rejects
CliNames == {"SimpleFlow", "Flow", "Flöw"}

\* flows that make each phase of _make_flow_and_write succeed or raise
FailureInputs ==
    {Input(g, [PlainFlow EXCEPT !.name = nm, !._flow_decorators = fd], <<>>, None) :
        g \in CliGraphs, nm \in CliNames, fd \in {None, Some(EmptyDict)}}

\* the directory names and file names of the paths given on the command line
DirNames == {".", "..", "home"}

FileNames == {"flow.py", "out.py"}

MaxDirs == 2

RECURSIVE DirsOfLen(_)
DirsOfLen(n) ==
    IF n = 0 THEN {<<>>}
    ELSE {Append(d, c) : d \in DirsOfLen(n - 1), c \in DirNames}

\* OUTPUT_FILE: a file name behind up to MaxDirs directory names
OutputPaths ==
    {Path(abs, Append(d, f)) :
        abs \in BOOLEAN, d \in UNION {DirsOfLen(n) : n \in 0..MaxDirs}, f \in FileNames}

\* sys.argv[0]: the flow file in the working directory
FlowFiles == {Path(FALSE, <<"flow.py">>), Path(TRUE, <<"home", "flow.py">>)}

Inputs ==
    TopologyInputs \cup RejectInputs \cup JoinInputs \cup TimeoutInputs
        \cup RetryInputs \cup EnvInputs \cup FlowInputs \cup ParamInputs
        \cup ScheduleInputs

\* ---------------------------------------------------------------------
\* State
\* ---------------------------------------------------------------------
VARIABLES
    graph,      \* PrefectFlow._graph: step name -> node
    flow,       \* PrefectFlow._flow
    tags,       \* PrefectFlow._tags
    namespace,  \* PrefectFlow._namespace
    pc,         \* position of the current compile() call
    dictRev,    \* iteration order of the env-var dicts during this call
    visited,    \* _topological_order: visited
    result,     \* _topological_order: result
    queue,      \* _topological_order: queue
    spec,       \* compile(): spec returned by analyze_graph
    outputs,    \* outcome of every finished compile() call, in order
    evals,      \* calls of each parameter's deferred default during this analyze_graph call
    flow_name,  \* _python_name: the argument, a sequence of characters
    flow_fn_name, \* prefect_cli: flow_fn_name = _python_name(obj.flow.name)
    cb,         \* a _CB instance: its lines and its depth
    cb_calls,   \* the calls made on cb so far, with the depth each was made at
    cb_text,    \* what cb.build() returned
    task,       \* a step task: is_task_ok, step type, flow._foreach_num_splits, who launched it
    environ,    \* os.environ.get(ENV_FOREACH_INFO_PATH) in the step subprocess
    info_file,  \* the content of the side-channel file, None when there is no file
    ch_pc,      \* position in the side-channel protocol
    ch_events,  \* writes, exits and reads of the protocol, in order
    fanout,     \* the fan-out size the parent task uses
    cmd,        \* the prefect subcommand that was invoked
    cli_pc,     \* position in the subcommand
    argv0,      \* sys.argv[0], the flow file
    output_file, \* the path _make_flow_and_write is given: OUTPUT_FILE or tmp_path
    fs,         \* the files that exist: absolute path -> content
    cli_err,    \* the exception the subcommand ended with
    unlinks,    \* calls of os.unlink(tmp_path) so far
    registered  \* the deployment registered with Prefect

vars == <<graph, flow, tags, namespace, pc, dictRev, visited, result, queue, spec, outputs,
          evals, flow_name, flow_fn_name, cb, cb_calls, cb_text,
          task, environ, info_file, ch_pc, ch_events, fanout,
          cmd, cli_pc, argv0, output_file, fs, cli_err, unlinks, registered>>

cliVars == <<cmd, cli_pc, argv0, output_file, fs, cli_err, unlinks, registered>>

channelVars == <<task, environ, info_file, ch_pc, ch_events, fanout>>

nameVars == <<flow_name, flow_fn_name>>

cbVars == <<cb, cb_calls, cb_text>>

\* what belongs to the name conversion, the line accumulator, the side
\* channel and the command line
auxVars == <<nameVars, cbVars, channelVars, cliVars>>

inputVars == <<graph, flow, tags, namespace>>

traversalVars == <<visited, result, queue>>

compileVars == <<inputVars, pc, dictRev, traversalVars, spec, outputs, evals>>

\* a finished call: the text returned, or the exception raised and the
\* phase of analyze_graph that raised it
Returned(text) == [text |-> Some(text), err |-> None, at |-> "generate"]

Raised(e, at) == [text |-> None, err |-> Some(e), at |-> at]

\* some step carries an env-var dict whose iteration order can vary
HasEnvOrder(g) ==
    \E n \in Nodes : \E i \in 1..Len(g[n].decorators) :
        /\ g[n].decorators[i].name = "environment"
        /\ ~IsNone(Get(g[n].decorators[i].attributes, "vars", None))
        /\ Cardinality(DOMAIN Get(g[n].decorators[i].attributes, "vars", None)[1]) >= 2

\* no deferred default has been called
NoEvals(f) == [i \in 1..Len(f.params) |-> 0]

\* a fresh line accumulator
CBInit ==
    /\ cb = _CB
    /\ cb_calls = <<>>
    /\ cb_text = None

\* a step task: outcome, step type, flow._foreach_num_splits (None when the
\* attribute is missing or None), whether the generated parent task launched
\* it, and the side-channel file found before the run
Task(is_task_ok, type, num_splits, by_parent, found) ==
    [is_task_ok |-> is_task_ok, type |-> type, num_splits |-> num_splits,
     by_parent |-> by_parent, found |-> found]

InfoPath == "/tmp/foreach_info.json"

\* a file left at the side-channel path by an earlier run
StaleFile == Some(JsonDump(9))

\* no step task is under way
ChannelIdle ==
    /\ task = Task(TRUE, "linear", None, FALSE, None)
    /\ environ = None
    /\ info_file = None
    /\ ch_pc = "done"
    /\ ch_events = <<>>
    /\ fanout = None

\* the state after PrefectFlow(...) was constructed from one of the inputs,
\* for a flow class named by one of names
FacadeInit(inputs, names) ==
    /\ \E inp \in inputs :
          /\ graph = inp.graph
          /\ flow = inp.flow
          /\ tags = inp.tags
          /\ namespace = inp.namespace
    /\ pc = "idle"
    /\ dictRev = FALSE
    /\ visited = {}
    /\ result = <<>>
    /\ queue = <<>>
    /\ spec = None
    /\ outputs = <<>>
    /\ evals = NoEvals(flow)
    /\ flow_name \in names
    /\ flow_fn_name = None

\* the files before a subcommand runs: the flow file, and possibly a file
\* left at another path
FilesAt(flow_file, others) ==
    [p \in {Locate(flow_file)} \cup others |->
        IF p = Locate(flow_file) THEN FlowSource ELSE OldOutput]

\* no subcommand was invoked
CliIdle ==
    /\ cmd = "none"
    /\ cli_pc = "done"
    /\ argv0 = Path(FALSE, <<"flow.py">>)
    /\ output_file = None
    /\ fs = FilesAt(argv0, {})
    /\ cli_err = None
    /\ unlinks = 0
    /\ registered = None

\* ... with a fresh line accumulator, no step task under way and no
\* subcommand invoked
InitWith(inputs, names) ==
    /\ FacadeInit(inputs, names)
    /\ CBInit
    /\ ChannelIdle
    /\ CliIdle

InitFrom(inputs) == InitWith(inputs, {Chars(PlainFlow.name)})

Init == InitFrom(Inputs)

\* construction from the graph shapes alone
TopologyInit == InitFrom(TopologyInputs)

\* ---------------------------------------------------------------------
\* Actions
\* ---------------------------------------------------------------------
\* PrefectFlow.compile() is called: analyze_graph is entered
Compile ==
    /\ pc = "idle"
    /\ Len(outputs) < NumCalls
    /\ pc' = "validate"
    /\ \E rev \in (IF HasEnvOrder(graph) THEN BOOLEAN ELSE {FALSE}) : dictRev' = rev
    /\ evals' = NoEvals(flow)
    /\ UNCHANGED <<auxVars, inputVars, traversalVars, spec, outputs>>

\* the locals of _topological_order on entry
TraverseInit == [visited |-> {}, result |-> <<>>, queue |-> <<"start">>]

\* analyze_graph: _validate(graph, flow), then entry of _topological_order
Validate ==
    /\ pc = "validate"
    /\ IF ~IsNone(_validate(graph, flow))
       THEN /\ outputs' = Append(outputs, Raised(_validate(graph, flow)[1], "validate"))
            /\ pc' = "idle"
            /\ UNCHANGED traversalVars
       ELSE /\ pc' = "traverse"
            /\ visited' = TraverseInit.visited
            /\ result' = TraverseInit.result
            /\ queue' = TraverseInit.queue
            /\ UNCHANGED outputs
    /\ UNCHANGED <<auxVars, inputVars, dictRev, spec, evals>>

\* variant of HasUnvisitedPred that never defers
HasUnvisitedPred_never(node, seen) == FALSE

\* variant of HasUnvisitedPred that checks only the first predecessor
HasUnvisitedPred_first(node, seen) ==
    node.in_funcs # <<>> /\ node.in_funcs[1] \notin seen

\* variant of HasUnvisitedPred that tests membership in the list of StepSpec
\* objects, which never contains a name
HasUnvisitedPred_result(node, seen) == node.in_funcs # <<>>

\* "any(p not in visited for p in node.in_funcs)"
HasUnvisitedPred(node, seen) == \E p \in Range(node.in_funcs) : p \notin seen

\* variant of Requeue that drops the popped name
Requeue_dropped(q) == Tail(q)

\* "name = queue.pop(0)" followed by "queue.append(name)"
Requeue(q) == Append(Tail(q), Head(q))

\* loop iteration: the popped name was already visited
TraverseSkip ==
    /\ pc = "traverse"
    /\ queue # <<>>
    /\ Head(queue) \in visited
    /\ queue' = Tail(queue)
    /\ UNCHANGED <<auxVars, inputVars, pc, dictRev, visited, result, spec, outputs, evals>>

\* loop iteration: a predecessor is not visited yet, the name is requeued
TraverseDefer ==
    /\ pc = "traverse"
    /\ queue # <<>>
    /\ Head(queue) \notin visited
    /\ HasUnvisitedPred(graph[Head(queue)], visited)
    /\ queue' = Requeue(queue)
    /\ UNCHANGED <<auxVars, inputVars, pc, dictRev, visited, result, spec, outputs, evals>>

\* loop iteration: the node is processed; NodeType(node.type) raises
\* ValueError for a type outside the enumeration
TraverseVisit ==
    /\ pc = "traverse"
    /\ queue # <<>>
    /\ Head(queue) \notin visited
    /\ ~HasUnvisitedPred(graph[Head(queue)], visited)
    /\ LET name == Head(queue)
           node == graph[name]
       IN  /\ visited' = visited \cup {name}
           /\ IF node.type \notin NodeType
              THEN /\ outputs' = Append(outputs, Raised(ValueError(<<node.type>>), "traverse"))
                   /\ pc' = "idle"
                   /\ queue' = Tail(queue)
                   /\ UNCHANGED result
              ELSE /\ result' = Append(result, MakeStepSpec(graph, node, dictRev))
                   /\ queue' = EnqueueChildren(Tail(queue), node.out_funcs, 1, visited')
                   /\ UNCHANGED <<pc, outputs>>
    /\ UNCHANGED <<auxVars, inputVars, dictRev, spec, evals>>

\* the loop ends; analyze_graph extracts parameters, schedule, tags and
\* project and returns the FlowSpec.  _extract_parameters runs first;
\* _extract_schedule then reads flow._flow_decorators outside any try/except.
AnalyzeReturn ==
    /\ pc = "traverse"
    /\ queue = <<>>
    /\ evals' = [i \in 1..Len(flow.params) |-> evals[i] + DeployTimeCalls(flow.params[i])]
    /\ IF IsNone(flow._flow_decorators)
       THEN /\ outputs' = Append(outputs, Raised(AttributeError(<<"_flow_decorators">>), "extract"))
            /\ pc' = "idle"
            /\ UNCHANGED spec
       ELSE /\ spec' = Some(MakeFlowSpec(flow, result))
            /\ pc' = "analyzed"
            /\ UNCHANGED outputs
    /\ UNCHANGED <<auxVars, inputVars, dictRev, traversalVars>>

\* compile(): overlay of the caller's tags/namespace, then code generation
Generate ==
    /\ pc = "analyzed"
    /\ outputs' = Append(outputs, Returned(generate_prefect_file(Overlay(spec[1], tags, namespace))))
    /\ pc' = "idle"
    /\ UNCHANGED <<auxVars, inputVars, dictRev, traversalVars, spec, evals>>

Next ==
    \/ Compile
    \/ Validate
    \/ TraverseSkip
    \/ TraverseDefer
    \/ TraverseVisit
    \/ AnalyzeReturn
    \/ Generate

Spec == Init /\ [][Next]_vars

\* prefect_cli run/deploy: flow_fn_name = _python_name(obj.flow.name)
PythonName ==
    /\ IsNone(flow_fn_name)
    /\ flow_fn_name' = Some(_python_name(flow_name))
    /\ UNCHANGED <<flow_name, compileVars, cbVars, channelVars, cliVars>>

\* a flow class of any of the names, on the plain linear flow
NameInit ==
    InitWith({Input(EdgeGraph(ChainEdges, NoRev, ChainTypes, NoSplitParents,
                              NoParallel, NoDecorators),
                    PlainFlow, <<>>, None)},
             FlowNames)

NameNext == PythonName

\* the name conversion applied to every flow class name
NameSpec == NameInit /\ [][NameNext]_vars

\* the plain linear flow under its own name
PlainInit ==
    InitWith({Input(EdgeGraph(ChainEdges, NoRev, ChainTypes, NoSplitParents,
                              NoParallel, NoDecorators),
                    PlainFlow, <<>>, None)},
             {Chars(PlainFlow.name)})

\* the plain linear flow alone
PlainFacade ==
    FacadeInit({Input(EdgeGraph(ChainEdges, NoRev, ChainTypes, NoSplitParents,
                                NoParallel, NoDecorators),
                      PlainFlow, <<>>, None)},
               {Chars(PlainFlow.name)})

\* the lines the generator emits: a blank line and two pieces of text
EmitLines == {<<>>, <<"x">>, <<"a", "b">>}

\* cb.emit(line)
Emit ==
    /\ IsNone(cb_text)
    /\ Len(cb_calls) < MaxCalls
    /\ \E line \in EmitLines :
          /\ cb' = _CB_emit(cb, line)
          /\ cb_calls' = Append(cb_calls, [op |-> "emit", depth |-> cb.depth, line |-> line])
    /\ UNCHANGED <<cb_text, nameVars, compileVars, channelVars, cliVars>>

\* cb.indent()
Indent ==
    /\ IsNone(cb_text)
    /\ Len(cb_calls) < MaxCalls
    /\ cb' = _CB_indent(cb)
    /\ cb_calls' = Append(cb_calls, [op |-> "indent", depth |-> cb.depth, line |-> <<>>])
    /\ UNCHANGED <<cb_text, nameVars, compileVars, channelVars, cliVars>>

\* cb.dedent()
Dedent ==
    /\ IsNone(cb_text)
    /\ Len(cb_calls) < MaxCalls
    /\ cb' = _CB_dedent(cb)
    /\ cb_calls' = Append(cb_calls, [op |-> "dedent", depth |-> cb.depth, line |-> <<>>])
    /\ UNCHANGED <<cb_text, nameVars, compileVars, channelVars, cliVars>>

\* cb.build(), the last call on the accumulator
Build ==
    /\ IsNone(cb_text)
    /\ cb_text' = Some(_CB_build(cb))
    /\ UNCHANGED <<cb, cb_calls, nameVars, compileVars, channelVars, cliVars>>

CBNext ==
    \/ Emit
    \/ Indent
    \/ Dedent
    \/ Build

\* every sequence of calls on one line accumulator
CBSpec == PlainInit /\ [][CBNext]_vars

\* flow._foreach_num_splits: missing or None, or a cardinality
NumSplitsChoices == {None} \cup {Some(n) : n \in 0..MaxSplits}

\* task_finished called on any step, as the host framework and the tests do
DirectTasks ==
    {Task(ok, type, n, FALSE, found) :
        ok \in BOOLEAN, type \in {"foreach", "linear", "join"},
        n \in NumSplitsChoices, found \in {None, StaleFile}}

\* a foreach step launched by the parent task of the generated program; the
\* host framework sets _foreach_num_splits when a foreach step succeeds
ParentTasks ==
    {Task(ok, "foreach", n, TRUE, found) :
        ok \in BOOLEAN, n \in NumSplitsChoices \ {None}, found \in {None, StaleFile}}

ChannelInit ==
    /\ PlainFacade
    /\ CBInit
    /\ CliIdle
    /\ task \in DirectTasks \cup ParentTasks
    /\ environ \in (IF task.by_parent THEN {None} ELSE {None, Some(""), Some(InfoPath)})
    /\ info_file = task.found
    /\ ch_pc = "launch"
    /\ ch_events = <<>>
    /\ fanout = None

\* the step subprocess starts; the parent task passes the side-channel path
\* in the environment
Launch ==
    /\ ch_pc = "launch"
    /\ environ' = IF task.by_parent THEN Some(InfoPath) ELSE environ
    /\ ch_pc' = "task"
    /\ UNCHANGED <<task, info_file, ch_events, fanout, nameVars, cbVars, compileVars, cliVars>>

\* the step body ended and the host framework calls task_finished
TaskFinished ==
    /\ ch_pc = "task"
    /\ info_file' = task_finished(task, environ, info_file)
    /\ ch_events' = IF info_file' # info_file THEN Append(ch_events, "write") ELSE ch_events
    /\ ch_pc' = "exit"
    /\ UNCHANGED <<task, environ, fanout, nameVars, cbVars, compileVars, cliVars>>

\* the step subprocess exits: non-zero after a failed task, and possibly
\* non-zero after a task that succeeded
Exit ==
    /\ ch_pc = "exit"
    /\ \E status \in (IF task.is_task_ok THEN BOOLEAN ELSE {FALSE}) :
          /\ ch_events' = Append(ch_events, IF status THEN "exit_ok" ELSE "exit_failed")
          /\ ch_pc' = IF ~task.by_parent THEN "done"
                      ELSE IF status THEN "read" ELSE "failed"
    /\ UNCHANGED <<task, environ, info_file, fanout, nameVars, cbVars, compileVars, cliVars>>

\* the parent task, whose subprocess helper returned normally, reads the
\* side-channel file and fans out
ParentRead ==
    /\ ch_pc = "read"
    /\ IF IsNone(info_file)
       THEN /\ ch_pc' = "failed"
            /\ UNCHANGED <<ch_events, fanout>>
       ELSE /\ fanout' = Some(ReadNumSplits(info_file[1]))
            /\ ch_events' = Append(ch_events, "read")
            /\ ch_pc' = "done"
    /\ UNCHANGED <<task, environ, info_file, nameVars, cbVars, compileVars, cliVars>>

ChannelNext ==
    \/ Launch
    \/ TaskFinished
    \/ Exit
    \/ ParentRead

\* one step task and, when the parent task launched it, the read that follows
ChannelSpec == ChannelInit /\ [][ChannelNext]_vars

\* "python flow.py prefect create OUTPUT_FILE", with or without a file
\* already at the output path
CreateInit ==
    /\ cmd = "create"
    /\ argv0 \in FlowFiles
    /\ \E out \in OutputPaths :
          /\ output_file = Some(out)
          /\ fs \in {FilesAt(argv0, {}), FilesAt(argv0, {Locate(out)})}

\* "python flow.py prefect run" and "... prefect deploy"
TempInit ==
    /\ cmd \in {"run", "deploy"}
    /\ argv0 \in FlowFiles
    /\ output_file = None
    /\ fs = FilesAt(argv0, {})

CliInit ==
    /\ FacadeInit(FailureInputs \cup ScheduleInputs, {Chars(nm) : nm \in CliNames})
    /\ flow_name = Chars(flow.name)
    /\ CBInit
    /\ ChannelIdle
    /\ CreateInit \/ TempInit
    /\ cli_pc = "start"
    /\ cli_err = None
    /\ unlinks = 0
    /\ registered = None

CollisionMsg == <<"Output file name cannot be the same as the flow file name.">>

\* variant of AfterRaise without the try/finally of run and deploy
AfterRaise_propagate(command) == "done"

\* where an exception raised inside a subcommand leads: out of create, into
\* the finally clause of run and deploy
AfterRaise(command) == IF command = "create" THEN "done" ELSE "finally"

\* create: the comparison of the two absolute paths
CreateCheck ==
    /\ cmd = "create"
    /\ cli_pc = "start"
    /\ IF abspath(argv0) = abspath(output_file[1])
       THEN /\ cli_err' = Some(MetaflowException(CollisionMsg))
            /\ cli_pc' = "done"
       ELSE /\ cli_pc' = "resolve"
            /\ UNCHANGED cli_err
    /\ UNCHANGED <<cmd, argv0, output_file, fs, unlinks, registered,
                   nameVars, cbVars, compileVars, channelVars>>

\* run, deploy: NamedTemporaryFile(delete=False) creates an empty file that
\* stays when the with block closes it
MakeTemp ==
    /\ cmd \in {"run", "deploy"}
    /\ cli_pc = "start"
    /\ output_file' = Some(TmpPath)
    /\ fs' = [p \in DOMAIN fs \cup {Locate(TmpPath)} |->
                IF p = Locate(TmpPath) THEN EmptyFile ELSE fs[p]]
    /\ cli_pc' = "resolve"
    /\ UNCHANGED <<cmd, argv0, cli_err, unlinks, registered,
                   nameVars, cbVars, compileVars, channelVars>>

\* _make_flow_and_write: _resolve_name(obj), evaluated before PrefectFlow is
\* constructed
ResolveName ==
    /\ cli_pc = "resolve"
    /\ IF ~IsNone(_resolve_name(flow_name).err)
       THEN /\ cli_err' = _resolve_name(flow_name).err
            /\ cli_pc' = AfterRaise(cmd)
       ELSE /\ cli_pc' = "compile"
            /\ UNCHANGED cli_err
    /\ UNCHANGED <<cmd, argv0, output_file, fs, unlinks, registered,
                   nameVars, cbVars, compileVars, channelVars>>

\* _make_flow_and_write: source = pf.compile() is called, once
CliCompile ==
    /\ cli_pc = "compile"
    /\ outputs = <<>>
    /\ Compile

\* _make_flow_and_write: compile() raised and the exception propagates, or
\* it returned and the text is written to the output file
WriteSource ==
    /\ cli_pc = "compile"
    /\ pc = "idle"
    /\ Len(outputs) = 1
    /\ IF IsNone(outputs[1].err)
       THEN /\ fs' = WriteFile(fs, output_file[1], outputs[1].text[1])
            /\ cli_pc' = IF cmd = "create" THEN "done" ELSE "load"
            /\ UNCHANGED cli_err
       ELSE /\ cli_err' = outputs[1].err
            /\ cli_pc' = AfterRaise(cmd)
            /\ UNCHANGED fs
    /\ UNCHANGED <<cmd, argv0, output_file, unlinks, registered,
                   nameVars, cbVars, compileVars, channelVars>>

\* run, deploy: the written file is loaded and executed as a module, which
\* may raise
LoadModule ==
    /\ cli_pc = "load"
    /\ \E ok \in BOOLEAN :
          IF ok
          THEN /\ cli_pc' = "name"
               /\ UNCHANGED cli_err
          ELSE /\ cli_err' = Some(RuntimeFailure(<<"exec_module">>))
               /\ cli_pc' = AfterRaise(cmd)
    /\ UNCHANGED <<cmd, argv0, output_file, fs, unlinks, registered,
                   nameVars, cbVars, compileVars, channelVars>>

\* run, deploy: flow_fn_name = _python_name(obj.flow.name)
CliPythonName ==
    /\ cli_pc = "name"
    /\ PythonName

\* run: getattr(mod, flow_fn_name)(), which may raise; the try block ends
CallFlow ==
    /\ cmd = "run"
    /\ cli_pc = "name"
    /\ ~IsNone(flow_fn_name)
    /\ \E ok \in BOOLEAN :
          IF ok
          THEN /\ cli_pc' = "finally"
               /\ UNCHANGED cli_err
          ELSE /\ cli_err' = Some(RuntimeFailure(<<"flow run">>))
               /\ cli_pc' = AfterRaise(cmd)
    /\ UNCHANGED <<cmd, argv0, output_file, fs, unlinks, registered,
                   nameVars, cbVars, compileVars, channelVars>>

\* deploy: getattr, schedule_cron = _get_schedule_cron(obj.flow) and
\* asyncio.run(_register_deployment(..., cron=schedule_cron, ...)), which
\* may raise; the try block ends
Register ==
    /\ cmd = "deploy"
    /\ cli_pc = "name"
    /\ ~IsNone(flow_fn_name)
    /\ \E ok \in BOOLEAN :
          IF ok
          THEN /\ registered' = Some([flow_fn |-> flow_fn_name[1],
                                      cron |-> _get_schedule_cron(flow), tags |-> tags])
               /\ cli_pc' = "finally"
               /\ UNCHANGED cli_err
          ELSE /\ cli_err' = Some(RuntimeFailure(<<"register">>))
               /\ cli_pc' = AfterRaise(cmd)
               /\ UNCHANGED registered
    /\ UNCHANGED <<cmd, argv0, output_file, fs, unlinks,
                   nameVars, cbVars, compileVars, channelVars>>

\* run, deploy: finally: os.unlink(tmp_path)
Finally ==
    /\ cli_pc = "finally"
    /\ fs' = Unlink(fs, output_file[1])
    /\ unlinks' = unlinks + 1
    /\ cli_pc' = "done"
    /\ UNCHANGED <<cmd, argv0, output_file, cli_err, registered,
                   nameVars, cbVars, compileVars, channelVars>>

CliNext ==
    \/ CreateCheck
    \/ MakeTemp
    \/ ResolveName
    \/ CliCompile
    \/ Validate
    \/ TraverseSkip
    \/ TraverseDefer
    \/ TraverseVisit
    \/ AnalyzeReturn
    \/ Generate
    \/ WriteSource
    \/ LoadModule
    \/ CliPythonName
    \/ CallFlow
    \/ Register
    \/ Finally

\* one invocation of a prefect subcommand
CliSpec == CliInit /\ [][CliNext]_vars

\* the interpreter keeps executing the call it is in; the traversal is run on
\* every graph shape
FairSpec == TopologyInit /\ [][Next]_vars /\ WF_vars(Next)

\* ---------------------------------------------------------------------
\* Properties
\* ---------------------------------------------------------------------
\* the steps of the FlowSpec that analyze_graph returned
Steps == IF IsNone(spec) THEN <<>> ELSE spec[1].steps

StepNames == {Steps[i].name : i \in 1..Len(Steps)}

\* nodes reachable from 'start' through out_funcs
RECURSIVE ReachClosure(_, _)
ReachClosure(g, S) ==
    LET T == S \cup {c \in Nodes : \E n \in S : c \in Range(g[n].out_funcs)}
    IN  IF T = S THEN S ELSE ReachClosure(g, T)

Reachable(g) == ReachClosure(g, {"start"})

\* in_funcs and out_funcs describe the same edges
Consistent(g) ==
    \A a \in Nodes, b \in Nodes :
        (b \in Range(g[a].out_funcs)) <=> (a \in Range(g[b].in_funcs))

\* every predecessor of a reachable node is reachable
PredsReachable(g) ==
    \A n \in Reachable(g) : Range(g[n].in_funcs) \subseteq Reachable(g)

\* C1: in the step sequence returned by analyze_graph every step sits after
\* every step named in its in_funcs and before every step named in its
\* out_funcs.
C1_TopologicalOrder ==
    \A i \in 1..Len(Steps) :
        /\ \A p \in Range(Steps[i].in_funcs) :
              \E j \in 1..(i - 1) : Steps[j].name = p
        /\ \A c \in Range(Steps[i].out_funcs) :
              \E j \in (i + 1)..Len(Steps) : Steps[j].name = c

\* a returned sequence that contains a fork and a step with two predecessors
C1_Witness ==
    /\ pc = "analyzed"
    /\ \E i \in 1..Len(Steps) : Len(Steps[i].in_funcs) >= 2
    /\ \E i \in 1..Len(Steps) : Len(Steps[i].out_funcs) >= 2

OnlySource(g) == {n \in Nodes : g[n].in_funcs = <<>>} = {"start"}

OnlySink(g) == {n \in Nodes : g[n].out_funcs = <<>>} = {"end"}

\* C2: when 'start' is the only node without predecessors and 'end' the only
\* node without successors, the first returned step is start and the last
\* is end.
C2_StartFirstEndLast ==
    (~IsNone(spec) /\ OnlySource(graph) /\ OnlySink(graph))
        => /\ Steps # <<>>
           /\ Steps[1].name = "start"
           /\ Steps[Len(Steps)].name = "end"

\* such a graph in which 'end' is a direct successor of 'start' and of a
\* later step
C2_Witness ==
    /\ pc = "analyzed"
    /\ OnlySource(graph) /\ OnlySink(graph)
    /\ "end" \in Range(graph["start"].out_funcs)
    /\ Len(graph["end"].in_funcs) >= 2
    /\ Steps[Len(Steps)].name = "end"

\* C3: the returned sequence contains every node reachable from 'start'
\* exactly once and no unreachable node.
C3_ReachableExactlyOnce ==
    ~IsNone(spec)
        => /\ StepNames = Reachable(graph)
           /\ Len(Steps) = Cardinality(StepNames)

\* a returned sequence for a graph with an unreachable node and a node that
\* was enqueued by two predecessors
C3_Witness ==
    /\ pc = "analyzed"
    /\ Reachable(graph) # Nodes
    /\ \E n \in Reachable(graph) : Len(graph[n].in_funcs) >= 2

\* C4: for a graph with consistent in_funcs/out_funcs in which every
\* predecessor of a reachable node is reachable, the traversal loop ends.
C4_TraversalTerminates ==
    (pc = "traverse" /\ Consistent(graph) /\ PredsReachable(graph))
        ~> (pc # "traverse")

\* the loop is about to defer a node of such a graph
C4_Witness ==
    /\ pc = "traverse"
    /\ Consistent(graph) /\ PredsReachable(graph)
    /\ queue # <<>>
    /\ Head(queue) \notin visited
    /\ \E p \in Range(graph[Head(queue)].in_funcs) : p \notin visited

\* a step with parallel_foreach or a batch/slurm decorator
UnsupportedStep(node) ==
    \/ node.parallel_foreach
    \/ \E i \in 1..Len(node.decorators) : node.decorators[i].name \in {"batch", "slurm"}

\* a non-empty entry of flow._flow_decorators for the policy
UnsupportedPolicy(f, policy) ==
    /\ ~IsNone(f._flow_decorators)
    /\ policy \in DOMAIN f._flow_decorators[1]
    /\ f._flow_decorators[1][policy] # <<>>

Unsupported(g, f) ==
    \/ \E n \in Nodes : UnsupportedStep(g[n])
    \/ \E policy \in {"trigger", "trigger_on_finish", "exit_hook"} : UnsupportedPolicy(f, policy)

\* C5: with an unsupported step or flow-level policy, every call raises
\* NotSupportedException, no FlowSpec is built and no text is returned.
C5_UnsupportedRejected ==
    Unsupported(graph, flow)
        => /\ pc \in {"idle", "validate"}
           /\ IsNone(spec)
           /\ \A k \in 1..Len(outputs) :
                 /\ IsNone(outputs[k].text)
                 /\ ~IsNone(outputs[k].err)
                 /\ outputs[k].err[1].exc = "NotSupportedException"

\* a finished call on a graph whose only unsupported feature is @slurm
C5_Witness ==
    /\ Len(outputs) >= 1
    /\ ~IsNone(outputs[1].err)
    /\ \E n \in Nodes : \E i \in 1..Len(graph[n].decorators) :
          graph[n].decorators[i].name = "slurm"
    /\ \A n \in Nodes : ~graph[n].parallel_foreach
    /\ \A n \in Nodes : \A i \in 1..Len(graph[n].decorators) :
          graph[n].decorators[i].name # "batch"

\* the NotSupportedException outcomes among the finished calls
Rejections ==
    {outputs[k].err[1] : k \in {j \in 1..Len(outputs) :
        ~IsNone(outputs[j].err) /\ outputs[j].err[1].exc = "NotSupportedException"}}

\* the step-level features validation rejects
HasBadDeco(node) ==
    \E i \in 1..Len(node.decorators) : node.decorators[i].name \in {"batch", "slurm"}

\* the message names a step that carries an unsupported step-level feature
NamesOffendingStep(msg) ==
    \E n \in Nodes : n \in Range(msg) /\ UnsupportedStep(graph[n])

\* the message names a flow-level policy the flow carries
NamesOffendingPolicy(msg) ==
    \E policy \in {"trigger", "trigger_on_finish", "exit_hook"} :
        policy \in Range(msg) /\ UnsupportedPolicy(flow, policy)

\* C6 as stated: every unsupported-feature error carries the name of the
\* offending step (parallel fan-out, batch, slurm) or of the offending
\* flow-level policy.
C6_ErrorNamesOffender ==
    \A e \in Rejections : NamesOffendingStep(e.msg) \/ NamesOffendingPolicy(e.msg)

\* C6 amended: the error for a batch or slurm decorator carries the name of a
\* step with such a decorator, the error for a flow-level policy carries the
\* name of a policy the flow carries, and the error for parallel fan-out
\* carries no step name.
C6_ErrorNamesOffenderExceptParallel ==
    \A e \in Rejections :
        \/ /\ \E n \in Nodes : graph[n].parallel_foreach
           /\ Range(e.msg) \cap Nodes = {}
           /\ ~NamesOffendingPolicy(e.msg)
        \/ \E n \in Nodes : n \in Range(e.msg) /\ HasBadDeco(graph[n])
        \/ NamesOffendingPolicy(e.msg)

\* a rejection that names a batch-decorated step other than 'start'
C6_Witness ==
    \E e \in Rejections : \E n \in Nodes \ {"start"} :
        /\ n \in Range(e.msg)
        /\ \E i \in 1..Len(graph[n].decorators) : graph[n].decorators[i].name = "batch"

\* C7: once validation has accepted the graph and flow, analyze_graph raises
\* no error: every error of a finished call was raised by the validation
\* pass.
C7_NoErrorAfterValidation ==
    \A k \in 1..Len(outputs) :
        ~IsNone(outputs[k].err) => outputs[k].at = "validate"

\* C8: every compile() call on the same instance has the same outcome,
\* whatever order the env-var dicts iterate in and whatever the earlier
\* call left behind.
C8_CompileDeterministic ==
    \A i \in 1..Len(outputs), j \in 1..Len(outputs) : outputs[i] = outputs[j]

\* two calls returned text for a step with two env vars, the last call
\* iterating the dict in reverse order
C8_Witness ==
    /\ Len(outputs) >= 2
    /\ ~IsNone(outputs[1].text)
    /\ ~IsNone(outputs[Len(outputs)].text)
    /\ HasEnvOrder(graph)
    /\ dictRev

\* C9: is_foreach_join holds exactly for a join whose last split parent is a
\* foreach, is_split_join exactly for a join whose last split parent is a
\* split.
C9_JoinClassification ==
    \A i \in 1..Len(Steps) :
        LET st == Steps[i]
            closes(t) == /\ st.node_type = "join"
                         /\ st.split_parents # <<>>
                         /\ graph[st.split_parents[Len(st.split_parents)]].type = t
        IN  /\ st.is_foreach_join <=> closes("foreach")
            /\ st.is_split_join <=> closes("split")

\* a returned foreach join nested under an outer static split
C9_Witness ==
    \E i \in 1..Len(Steps) :
        /\ Steps[i].is_foreach_join
        /\ Len(Steps[i].split_parents) = 2
        /\ graph[Steps[i].split_parents[1]].type = "split"

\* the @timeout decorators of a node
TimeoutDecos(node) ==
    {i \in 1..Len(node.decorators) : node.decorators[i].name = "timeout"}

\* a field of the timeout policy; a missing or null field counts as 0
Field(attributes, key) ==
    IF key \in DOMAIN attributes /\ attributes[key] # None THEN attributes[key][1] ELSE 0

PolicyTotal(attributes) ==
    Field(attributes, "seconds") + Field(attributes, "minutes") * 60
        + Field(attributes, "hours") * 3600

\* the one timeout policy of a node that has one
TimeoutPolicy(node) == node.decorators[CHOOSE i \in TimeoutDecos(node) : TRUE].attributes

\* C10 as stated: timeout_seconds is the total of the timeout policy, and
\* None when there is no policy or the total is zero; never 0 or negative.
C10_TimeoutSeconds ==
    \A i \in 1..Len(Steps) :
        LET st == Steps[i]
            node == graph[st.name]
        IN  /\ Cardinality(TimeoutDecos(node)) <= 1
            /\ IF TimeoutDecos(node) = {} \/ PolicyTotal(TimeoutPolicy(node)) = 0
               THEN st.timeout_seconds = None
               ELSE st.timeout_seconds = Some(PolicyTotal(TimeoutPolicy(node)))
            /\ st.timeout_seconds # None => st.timeout_seconds[1] > 0

\* C10 amended: timeout_seconds is the total of the timeout policy, and None
\* when there is no policy or the total is zero or negative; never 0 or
\* negative.
C10_TimeoutSecondsPositive ==
    \A i \in 1..Len(Steps) :
        LET st == Steps[i]
            node == graph[st.name]
        IN  /\ Cardinality(TimeoutDecos(node)) <= 1
            /\ IF TimeoutDecos(node) = {} \/ PolicyTotal(TimeoutPolicy(node)) <= 0
               THEN st.timeout_seconds = None
               ELSE st.timeout_seconds = Some(PolicyTotal(TimeoutPolicy(node)))
            /\ st.timeout_seconds # None => st.timeout_seconds[1] > 0

\* a returned step whose policy sets hours and a null field
C10_Witness ==
    \E i \in 1..Len(Steps) :
        /\ TimeoutDecos(graph[Steps[i].name]) # {}
        /\ Field(TimeoutPolicy(graph[Steps[i].name]), "hours") > 0
        /\ \E k \in DOMAIN TimeoutPolicy(graph[Steps[i].name]) :
              TimeoutPolicy(graph[Steps[i].name])[k] = None
        /\ Steps[i].timeout_seconds # None

\* the @retry decorators of a node
RetryDecos(node) ==
    {i \in 1..Len(node.decorators) : node.decorators[i].name = "retry"}

\* the one retry policy of a node that has one
RetryPolicy(node) == node.decorators[CHOOSE i \in RetryDecos(node) : TRUE].attributes

\* C11: retry_delay_seconds is 60 times the minutes_between_retries field of
\* the step's retry policy, and None when the step has no retry policy or
\* the field is zero or absent.
C11_RetryDelaySeconds ==
    \A i \in 1..Len(Steps) :
        LET st == Steps[i]
            node == graph[st.name]
        IN  /\ Cardinality(RetryDecos(node)) <= 1
            /\ IF RetryDecos(node) = {}
                  \/ Field(RetryPolicy(node), "minutes_between_retries") = 0
               THEN st.retry_delay_seconds = None
               ELSE st.retry_delay_seconds
                      = Some(60 * Field(RetryPolicy(node), "minutes_between_retries"))

\* a returned step whose retry policy, listed after another decorator, sets
\* one minute between retries
C11_Witness ==
    \E i \in 1..Len(Steps) :
        /\ RetryDecos(graph[Steps[i].name]) = {2}
        /\ Field(RetryPolicy(graph[Steps[i].name]), "minutes_between_retries") = 1
        /\ Steps[i].retry_delay_seconds = Some(60)

\* the user-code retry counts the decorators of a node report
RetryCounts(node) == {node.decorators[i].retries : i \in 1..Len(node.decorators)}

\* C12: max_user_code_retries is a non-negative integer, the largest
\* user-code retry count reported by a decorator of the step, and 0 when the
\* step has no decorators.
C12_MaxUserCodeRetries ==
    \A i \in 1..Len(Steps) :
        LET st == Steps[i]
            counts == RetryCounts(graph[st.name])
        IN  /\ st.max_user_code_retries \in Nat
            /\ counts = {} => st.max_user_code_retries = 0
            /\ counts # {} =>
                  /\ st.max_user_code_retries \in counts
                  /\ \A c \in counts : c <= st.max_user_code_retries

\* a returned step whose first decorator reports more retries than its second
C12_Witness ==
    \E i \in 1..Len(Steps) :
        LET ds == graph[Steps[i].name].decorators
        IN  /\ Len(ds) = 2
            /\ ds[1].retries > ds[2].retries
            /\ ds[2].retries > 0
            /\ Steps[i].max_user_code_retries = ds[1].retries

\* the @environment decorators of a node
EnvDecos(node) ==
    {i \in 1..Len(node.decorators) : node.decorators[i].name = "environment"}

\* the vars mapping of the one environment policy of a node; a missing or
\* null mapping is the empty mapping
EnvMapping(node) ==
    LET attributes == node.decorators[CHOOSE i \in EnvDecos(node) : TRUE].attributes
    IN  IF "vars" \in DOMAIN attributes /\ attributes["vars"] # None
        THEN attributes["vars"][1] ELSE EmptyDict

\* C13: env_vars holds exactly the (key, value) pairs of the vars mapping of
\* the step's environment policy, in ascending key order whatever order the
\* mapping iterates in, and is empty when the step has no environment policy
\* or the mapping is empty or null.
C13_EnvVarsSortedPairs ==
    \A i \in 1..Len(Steps) :
        LET st == Steps[i]
            node == graph[st.name]
        IN  /\ Cardinality(EnvDecos(node)) <= 1
            /\ IF EnvDecos(node) = {} THEN st.env_vars = <<>>
               ELSE /\ Range(st.env_vars)
                        = {<<k, EnvMapping(node)[k]>> : k \in DOMAIN EnvMapping(node)}
                    /\ Len(st.env_vars) = Cardinality(DOMAIN EnvMapping(node))
                    /\ \A a \in 1..Len(st.env_vars), b \in 1..Len(st.env_vars) :
                          a < b => StrRank(st.env_vars[a][1]) < StrRank(st.env_vars[b][1])

\* a returned step with two variables whose mapping iterated in descending
\* key order
C13_Witness ==
    /\ dictRev
    /\ \E i \in 1..Len(Steps) :
          /\ Len(Steps[i].env_vars) = 2
          /\ Steps[i].env_vars[1][2] # Steps[i].env_vars[2][2]

\* the parameters of the FlowSpec that analyze_graph returned
Parameters == IF IsNone(spec) THEN <<>> ELSE spec[1].parameters

\* a storage location holds a value for the key
HasValue(storage, key) == key \in DOMAIN storage /\ storage[key] # PyNone

\* the default of param as C14 resolves it: primary first, fallback second
ResolvedDefault(param) ==
    IF HasValue(param.kwargs, "default") THEN param.kwargs["default"]
    ELSE IF ~IsNone(param._override_kwargs)
            /\ HasValue(param._override_kwargs[1], "default")
         THEN param._override_kwargs[1]["default"]
    ELSE PyNone

\* the value a default stands for once a deferred one has been evaluated
Concrete(v) == PyVal(v.t, v.i, v.s, FALSE)

\* C14: the default of every extracted parameter comes from param.kwargs
\* whenever that holds a value for it, 0, False and "" included, and from
\* param._override_kwargs only when param.kwargs holds none.
C14_DefaultPrimaryThenFallback ==
    /\ Len(Parameters) \in {0, Len(flow.params)}
    /\ \A i \in 1..Len(Parameters) :
          /\ Parameters[i].name = flow.params[i].name
          /\ Parameters[i].default = Concrete(ResolvedDefault(flow.params[i]))

\* an analysis in which a primary default of 0 was kept although a fallback
\* exists, and another parameter took its default from the fallback
C14_Witness ==
    /\ Len(Parameters) = 2
    /\ flow.params[1].kwargs["default"] = PyInt(0)
    /\ HasValue(flow.params[1]._override_kwargs[1], "default")
    /\ Parameters[1].default = PyInt(0)
    /\ ~HasValue(flow.params[2].kwargs, "default")
    /\ Parameters[2].default = PyInt(5)

MappedTypes == {"str", "int", "float", "bool"}

\* C15: type_name is one of str, int, float, bool: the type of the evaluated
\* default when that is one of the four, and str for None and every other
\* type.
C15_TypeNameOfDefault ==
    \A i \in 1..Len(Parameters) :
        /\ Parameters[i].type_name \in MappedTypes
        /\ Parameters[i].type_name
             = (IF Parameters[i].default.t \in MappedTypes
                THEN Parameters[i].default.t ELSE "str")

\* an extracted parameter whose default is of an unmapped type
C15_Witness ==
    \E i \in 1..Len(Parameters) :
        /\ Parameters[i].default.t = "list"
        /\ Parameters[i].type_name = "str"

\* the call in progress or just finished has run _extract_parameters
ParametersExtracted ==
    \/ pc = "analyzed"
    \/ pc = "idle" /\ outputs # <<>> /\ Last(outputs).at \in {"extract", "generate"}

\* C16: within one analyze_graph call the deferred default of every parameter
\* is called exactly once, by the analysis and not before it; the
\* ParameterSpec holds the concrete value; the overlay and the generation
\* that follow call it no further.
C16_DeferredDefaultEvaluatedOnce ==
    /\ \A i \in 1..Len(flow.params) :
          evals[i] = (IF ParametersExtracted /\ ResolvedDefault(flow.params[i]).d
                      THEN 1 ELSE 0)
    /\ \A i \in 1..Len(Parameters) : ~Parameters[i].default.d

\* a second compile() call has returned and the deferred default was called
\* once in it
C16_Witness ==
    /\ pc = "idle"
    /\ Len(outputs) >= 2
    /\ ~IsNone(Last(outputs).text)
    /\ \E i \in 1..Len(Parameters) :
          /\ ResolvedDefault(flow.params[i]).d
          /\ evals[i] = 1
          /\ ~Parameters[i].default.d

\* the cron expression each shorthand flag stands for
ShorthandCron == [weekly |-> "0 0 * * 0", daily |-> "0 0 * * *", hourly |-> "0 * * * *"]

\* the attributes of the flow's schedule policy, as an optional value
SchedulePolicy(f) ==
    IF "schedule" \in DOMAIN f._flow_decorators[1]
       /\ f._flow_decorators[1]["schedule"] # <<>>
    THEN Some(f._flow_decorators[1]["schedule"][1].attributes)
    ELSE None

\* the policy sets the attribute to something other than None, False or ""
IsSet(attributes, key) == key \in DOMAIN attributes /\ Truthy(attributes[key])

\* the shorthand flags the policy sets
FlagsSet(attributes) == {k \in DOMAIN ShorthandCron : IsSet(attributes, k)}

\* C17: with an explicit cron, schedule_cron is that cron whatever the
\* shorthand flags are; otherwise it is the expression of a shorthand flag
\* the policy sets (weekly '0 0 * * 0', daily '0 0 * * *', hourly
\* '0 * * * *'); it is None when there is no schedule policy or the policy
\* sets none of the four.
C17_ScheduleCron ==
    ~IsNone(spec) =>
        LET policy == SchedulePolicy(flow)
            cron == spec[1].schedule_cron
        IN  IF IsNone(policy) THEN cron = None
            ELSE IF IsSet(policy[1], "cron") THEN cron = Some(policy[1]["cron"].s)
            ELSE IF FlagsSet(policy[1]) = {} THEN cron = None
            ELSE \E k \in FlagsSet(policy[1]) : cron = Some(ShorthandCron[k])

\* an analysis of a flow whose policy sets both a cron and the weekly flag
C17_Witness ==
    /\ ~IsNone(spec)
    /\ ~IsNone(SchedulePolicy(flow))
    /\ IsSet(SchedulePolicy(flow)[1], "cron")
    /\ "weekly" \in FlagsSet(SchedulePolicy(flow)[1])
    /\ spec[1].schedule_cron = Some("5 4 * * *")

\* the last compile() call returned source text
LastReturned == outputs # <<>> /\ ~IsNone(Last(outputs).text)

\* the FlowSpec that call handed to the generator
Handed == Last(outputs).text[1][2]

\* C18: with a non-empty caller tag list the FlowSpec handed to the generator
\* has exactly the caller's tags; with a caller namespace it has the caller's
\* namespace; with no caller tags and namespace None it is the analyzed
\* FlowSpec.
C18_OverlayWins ==
    LastReturned =>
        /\ tags # <<>> => Handed.tags = tags
        /\ ~IsNone(namespace) => Handed.namespace = namespace
        /\ (tags = <<>> /\ IsNone(namespace)) => Handed = spec[1]

\* C19: under an overlay the FlowSpec handed to the generator agrees with the
\* analyzed one on name, steps, parameters, description, schedule_cron and
\* project_name; an overlay of tags alone keeps the analyzed namespace and an
\* overlay of namespace alone keeps the analyzed tags; the analyzed FlowSpec
\* is still the value the analysis produced.
C19_OverlayFrame ==
    (LastReturned /\ (tags # <<>> \/ ~IsNone(namespace))) =>
        /\ Handed.name = spec[1].name
        /\ Handed.steps = spec[1].steps
        /\ Handed.parameters = spec[1].parameters
        /\ Handed.description = spec[1].description
        /\ Handed.schedule_cron = spec[1].schedule_cron
        /\ Handed.project_name = spec[1].project_name
        /\ IsNone(namespace) => Handed.namespace = spec[1].namespace
        /\ tags = <<>> => Handed.tags = spec[1].tags
        /\ spec[1] = MakeFlowSpec(flow, spec[1].steps)

\* '_' put before every capital of name from the i-th character on, the
\* first character excepted
RECURSIVE Underscored(_, _)
Underscored(name, i) ==
    IF i > Len(name) THEN <<>>
    ELSE (IF i > 1 /\ IsUpper(name[i]) THEN <<"_", name[i]>> ELSE <<name[i]>>)
            \o Underscored(name, i + 1)

Lowered(name) == [j \in 1..Len(name) |-> Lower(name[j])]

\* C20: the entry-function name is the flow name with '_' inserted before
\* every capital that is not its first character, then lowercased
\* (SimpleFlow -> simple_flow, MyAwesomeFlow -> my_awesome_flow, Flow -> flow,
\* flow -> flow); it holds no capital, and converting it again changes
\* nothing.
C20_PythonName ==
    ~IsNone(flow_fn_name) =>
        LET fn == flow_fn_name[1]
        IN  /\ fn = Lowered(Underscored(flow_name, 1))
            /\ \A j \in 1..Len(fn) : ~IsUpper(fn[j])
            /\ _python_name(fn) = fn
            /\ flow_name = Chars("SimpleFlow") => fn = Chars("simple_flow")
            /\ flow_name = Chars("MyAwesomeFlow") => fn = Chars("my_awesome_flow")
            /\ flow_name = Chars("Flow") => fn = Chars("flow")
            /\ flow_name = Chars("flow") => fn = Chars("flow")

\* MyAwesomeFlow has been converted
C20_Witness ==
    /\ flow_name = Chars("MyAwesomeFlow")
    /\ flow_fn_name = Some(Chars("my_awesome_flow"))

\* the calls of one kind made so far
CallsOf(op) == {i \in 1..Len(cb_calls) : cb_calls[i].op = op}

\* the dedent calls that were made at a depth above zero
AppliedDedents == {i \in CallsOf("dedent") : cb_calls[i].depth > 0}

\* C21: the depth of the line accumulator is never negative; a dedent at
\* depth zero changes nothing, so the depth is the number of indent calls
\* minus the number of dedent calls made at a depth above zero.
C21_DepthNeverNegative ==
    /\ cb.depth >= 0
    /\ cb.depth = Cardinality(CallsOf("indent")) - Cardinality(AppliedDedents)

\* a dedent was made at depth zero and an indent after it
C21_Witness ==
    /\ cb.depth = 1
    /\ \E i \in CallsOf("dedent") :
          /\ cb_calls[i].depth = 0
          /\ \E j \in CallsOf("indent") : j > i

\* the emit calls made so far, in order
Emitted == SelectSeq(cb_calls, LAMBDA c : c.op = "emit")

\* text cut at its newlines; the empty text is one empty line
RECURSIVE SplitLines(_, _)
SplitLines(text, line) ==
    IF text = <<>> THEN <<line>>
    ELSE IF Head(text) = "\n" THEN <<line>> \o SplitLines(Tail(text), <<>>)
    ELSE SplitLines(Tail(text), Append(line, Head(text)))

\* the leading spaces of a line
RECURSIVE LeadingSpaces(_)
LeadingSpaces(line) ==
    IF line # <<>> /\ Head(line) = " " THEN 1 + LeadingSpaces(Tail(line)) ELSE 0

\* C22: build() returns the emitted lines in emission order, separated by
\* single newlines and with no newline at the end, and the empty string when
\* nothing was emitted; a non-blank line starts with four spaces per level
\* of the depth it was emitted at, whatever indent and dedent calls followed.
C22_BuildJoinsLines ==
    ~IsNone(cb_text) =>
        IF Emitted = <<>> THEN cb_text[1] = <<>>
        ELSE LET lines == SplitLines(cb_text[1], <<>>)
             IN  /\ Len(lines) = Len(Emitted)
                 /\ \A i \in 1..Len(lines) :
                       IF Emitted[i].line = <<>> THEN lines[i] = <<>>
                       ELSE /\ LeadingSpaces(lines[i]) = 4 * Emitted[i].depth
                            /\ SubSeq(lines[i], 4 * Emitted[i].depth + 1, Len(lines[i]))
                                 = Emitted[i].line

\* built after indent, emit, dedent, emit
C22_Witness ==
    /\ ~IsNone(cb_text)
    /\ Len(Emitted) = 2
    /\ Emitted[1].depth = 1 /\ Emitted[1].line # <<>>
    /\ Emitted[2].depth = 0 /\ Emitted[2].line # <<>>
    /\ cb.depth = 0

\* task_finished has returned
Finished == ch_pc \notin {"launch", "task"}

\* the side-channel path is set to a non-empty value in the environment
PathSet == ~IsNone(environ) /\ environ[1] # ""

\* the four conditions of C23
MustWrite ==
    /\ task.is_task_ok
    /\ task.type = "foreach"
    /\ PathSet
    /\ ~IsNone(task.num_splits)

Written == \E i \in 1..Len(ch_events) : ch_events[i] = "write"

\* C23: task_finished writes {"num_splits": n} to the side-channel file if
\* and only if the task succeeded, the step is a foreach, the path variable
\* is set (to a non-empty path) and flow._foreach_num_splits is not None;
\* otherwise the file, or its absence, is as it was found.
C23_WritesIffForeachOk ==
    Finished =>
        /\ Written <=> MustWrite
        /\ IF MustWrite
           THEN /\ ~IsNone(info_file)
                /\ SubSeq(info_file[1], 1, Len(JsonKey)) = JsonKey
                /\ info_file[1][Len(info_file[1])] = "}"
                /\ ReadNumSplits(info_file[1]) = task.num_splits[1]
           ELSE info_file = task.found

\* a successful foreach task replaced the file found at the path
C23_Witness ==
    /\ Finished
    /\ ~task.by_parent
    /\ task.found = StaleFile
    /\ task.num_splits = Some(MaxSplits)
    /\ info_file = Some(JsonDump(MaxSplits))

\* the positions of an event in the protocol
EventsAt(e) == {i \in 1..Len(ch_events) : ch_events[i] = e}

\* C24: the parent task reads the side-channel file only after the step
\* subprocess it launched exited with success, and so after the write of
\* that step's task_finished; after a failed task nothing was written, the
\* parent reads nothing and fans out nothing; the fan-out size is the
\* num_splits the step wrote.
C24_ReadFollowsWrite ==
    task.by_parent =>
        /\ \A r \in EventsAt("read") :
              \E x \in EventsAt("exit_ok") : \E w \in EventsAt("write") : w < x /\ x < r
        /\ ~task.is_task_ok =>
              /\ EventsAt("write") = {}
              /\ EventsAt("read") = {}
              /\ IsNone(fanout)
        /\ ~IsNone(fanout) =>
              /\ EventsAt("read") # {}
              /\ fanout = task.num_splits

\* the parent task fanned out over the cardinality the step wrote over a
\* file left at the path
C24_Witness ==
    /\ task.by_parent
    /\ task.found = StaleFile
    /\ fanout = Some(MaxSplits)
    /\ ch_events = <<"write", "exit_ok", "read">>

\* the files the subcommand was started with name the same file to the
\* operating system
SameFile == Locate(argv0) = Locate(output_file[1])

\* C25: create rejects an output path that names the flow file itself: the
\* command ends with the MetaflowException before any compilation and before
\* any file is written, so the flow file is never overwritten.
C25_CreateRejectsFlowFile ==
    cmd = "create" =>
        /\ fs[Locate(argv0)] = FlowSource
        /\ SameFile =>
              /\ cli_pc \in {"start", "done"}
              /\ pc = "idle"
              /\ outputs = <<>>
              /\ fs = FilesAt(argv0, {})
              /\ cli_pc = "done" => cli_err = Some(MetaflowException(CollisionMsg))

\* create has rejected an output path spelled differently from the flow file
C25_Witness ==
    /\ cmd = "create"
    /\ cli_pc = "done"
    /\ SameFile
    /\ output_file[1] # argv0
    /\ "." \in Range(output_file[1].parts)
    /\ ~IsNone(cli_err)

\* the successors of a step that are not in seen, in the order of out_funcs
Unseen(out_funcs, seen) == SelectSeq(out_funcs, LAMBDA c : c \notin seen)

\* one iteration of the traversal loop
C26_Iteration ==
    (pc = "traverse" /\ queue # <<>>) =>
        LET name == Head(queue)
            waiting == \E p \in Range(graph[name].in_funcs) : p \notin visited
        IN  /\ (name \notin visited /\ waiting) =>
                  /\ queue' = Append(Tail(queue), name)
                  /\ visited' = visited
                  /\ result' = result
            /\ (visited' # visited \/ result' # result) =>
                  /\ ~waiting
                  /\ visited' = visited \cup {name}
            /\ result' # result =>
                  /\ Len(result') = Len(result) + 1
                  /\ SubSeq(result', 1, Len(result)) = result
                  /\ Last(result').name = name
                  /\ queue' = Tail(queue) \o Unseen(graph[name].out_funcs, visited \cup {name})
            /\ (result' = result /\ ~(name \notin visited /\ waiting)) => queue' = Tail(queue)

\* C26: popping a node with an unvisited predecessor puts it at the back of
\* the queue and leaves visited and result alone; a node enters visited and
\* its StepSpec enters result only in an iteration where all its in_funcs are
\* visited, and only then are its unvisited successors enqueued.
C26_TraversalFrame == [][C26_Iteration]_vars

\* the second branch of a fork was popped first and requeued behind the first
C26_Witness ==
    /\ pc = "traverse"
    /\ visited = {"start"}
    /\ Len(result) = 1
    /\ graph["start"].out_funcs = <<AllMid[2], AllMid[1]>>
    /\ AllMid[1] \in Range(graph[AllMid[2]].in_funcs)
    /\ queue = <<AllMid[1], AllMid[2]>>

\* C27: no step is both a foreach join and a split join, and a step that is
\* not a join, or a join without split parents, is neither.
C27_JoinFlagsExclusive ==
    \A i \in 1..Len(Steps) :
        /\ ~(Steps[i].is_foreach_join /\ Steps[i].is_split_join)
        /\ (Steps[i].node_type # "join" \/ Steps[i].split_parents = <<>>) =>
              (~Steps[i].is_foreach_join /\ ~Steps[i].is_split_join)

\* a returned foreach join, and a returned join without split parents
C27_Witness ==
    /\ \E i \in 1..Len(Steps) : Steps[i].is_foreach_join /\ ~Steps[i].is_split_join
    /\ \E i \in 1..Len(Steps) : Steps[i].node_type # "join" /\ ~Steps[i].is_split_join

\* C28: run and deploy remove the temporary file on every way out of the
\* command, and remove it once: it exists from its creation to the finally
\* clause, and it is gone when the command has ended.
C28_TempFileRemovedOnce ==
    cmd \in {"run", "deploy"} =>
        /\ unlinks <= 1
        /\ cli_pc \notin {"start", "done"} => (Locate(TmpPath) \in DOMAIN fs /\ unlinks = 0)
        /\ cli_pc = "done" => (Locate(TmpPath) \notin DOMAIN fs /\ unlinks = 1)

\* deploy has ended after the registration failed
C28_Witness ==
    /\ cmd = "deploy"
    /\ cli_pc = "done"
    /\ cli_err = Some(RuntimeFailure(<<"register">>))
    /\ unlinks = 1

\* the name has a character outside ASCII letters, digits, '_', '-' and '.'
NonAscii(name) == \E i \in 1..Len(name) : name[i] = "ö"

\* one step inside _make_flow_and_write
C29_Call ==
    cli_pc \in {"resolve", "compile"} =>
        /\ fs' # fs =>
              /\ Len(outputs) = 1
              /\ ~IsNone(outputs[1].text)
              /\ DOMAIN fs' = DOMAIN fs \cup {Locate(output_file[1])}
              /\ fs'[Locate(output_file[1])] = Content("generated", outputs[1].text[1])
              /\ \A p \in DOMAIN fs : p # Locate(output_file[1]) => fs'[p] = fs[p]
        /\ (cli_pc' \notin {"resolve", "compile"} /\ IsNone(cli_err')) =>
              /\ fs' # fs
              /\ ~NonAscii(flow_name)
        /\ (cli_pc' \notin {"resolve", "compile"} /\ ~IsNone(cli_err')) =>
              /\ fs' = fs
              /\ outputs = <<>> \/ ~IsNone(outputs[1].err)

\* C29: the output file is written only after compile() returned: when name
\* resolution, analysis or generation raises, the file is neither created nor
\* truncated nor written, and on success it holds exactly the returned text.
C29_WriteOnlyAfterCompile == [][C29_Call]_vars

\* create has ended with the exception of compile(), and the file found at
\* the output path is as it was
C29_Witness ==
    /\ cmd = "create"
    /\ cli_pc = "done"
    /\ Len(outputs) = 1
    /\ cli_err = outputs[1].err
    /\ ~IsNone(cli_err)
    /\ Locate(output_file[1]) \in DOMAIN fs
    /\ fs[Locate(output_file[1])] = OldOutput

\* C30: _get_schedule_cron returns what _extract_schedule returns, for every
\* combination of cron and shorthand flags and without a schedule, so that
\* the cron a deployment is registered with is the one of the FlowSpec.
C30_ScheduleCronAgrees ==
    /\ ~IsNone(flow._flow_decorators) => _get_schedule_cron(flow) = _extract_schedule(flow)
    /\ ~IsNone(registered) =>
          /\ ~IsNone(spec)
          /\ registered[1].cron = spec[1].schedule_cron

\* a deployment registered for a flow with both the hourly and the daily flag
C30_Witness ==
    /\ ~IsNone(registered)
    /\ registered[1].cron = Some("0 * * * *")
    /\ \E s \in Range(Get(flow._flow_decorators[1], "schedule", <<>>)) :
          /\ Truthy(Get(s.attributes, "hourly", PyNone))
          /\ Truthy(Get(s.attributes, "daily", PyNone))

====
